---------------------------- MODULE Spec2Model ----------------------------
(***************************************************************************)
(* A model of protoc-gen-zod, the compiler that turns protobuf descriptors *)
(* (messages, enums, fields, buf.validate annotations) into Zod schema     *)
(* source text.                                                            *)
(*                                                                         *)
(*   Part I   the Dependency Resolver: analyzeMessageDependencies and      *)
(*            hasCycle of src/tools/zod/src/generator.ts, as a state       *)
(*            machine that takes one step per loop iteration and per       *)
(*            hasCycle call or return.                (specification Spec) *)
(*   Part II  the Constraint Extractor and the rendering of one field:     *)
(*            getValidationChain of src/index.ts and generateFieldSchema of *)
(*            src/tools/zod/src/generator.ts, one step per call.           *)
(*                                                (specification ChainSpec) *)
(*   Part III the type mapper and the path helper on their own:            *)
(*            mapScalarToZod of src/unnamed/part_000 and                   *)
(*            getRelativeImportPath of src/tools/zod/src/utils.ts.         *)
(*                                    (specifications ScalarSpec, PathSpec) *)
(*   Part IV  a run of the plugin: parseOptions of src/index.ts, then      *)
(*            generateZodSchemas and generateFileSchemas of generator.ts   *)
(*            over the files of a schema, with Part I as the analysis of   *)
(*            each file.                           (specification GenSpec) *)
(***************************************************************************)
EXTENDS Integers, Sequences, FiniteSets

(***************************************************************************)
(* Bounds of the model.                                                    *)
(***************************************************************************)
\* The largest number of top-level messages of the file that is analysed.
MaxMsgs == 3

(***************************************************************************)
(* Generic helpers on sequences (JavaScript arrays and insertion-ordered    *)
(* Sets are modelled as sequences).                                        *)
(***************************************************************************)
Range(s) == {s[i] : i \in 1..Len(s)}

\* Array.prototype.includes / Set.prototype.has on an insertion-ordered Set.
Includes(s, x) == \E i \in 1..Len(s) : s[i] = x

\* Set.prototype.add on an insertion-ordered Set: appended unless present.
SetAdd(s, x) == IF Includes(s, x) THEN s ELSE Append(s, x)

\* The number of positions of s that hold x.
Count(s, x) == Cardinality({i \in 1..Len(s) : s[i] = x})

(***************************************************************************)
(* The descriptor model: the part of DescFile / DescMessage / DescField    *)
(* that the resolver reads.                                                *)
(***************************************************************************)
\* file.name of the file being compiled, and of another file of the input.
CurrentProtoPath == "pkg/v1/current"
OtherProtoPath == "pkg/v1/other"

\* Names that the top-level messages of the current file are drawn from, in
\* declaration order.
MsgNames == <<"A", "B", "C", "D", "E">>

\* A field whose fieldKind is "message" (singular) or "list" with listKind
\* "message" (repeated), referring to message `name` of file `file`.
MessageField(name, file) ==
    [fieldKind |-> "message", listKind |-> "none", msgName |-> name, msgFile |-> file]
ListField(name, file) ==
    [fieldKind |-> "list", listKind |-> "message", msgName |-> name, msgFile |-> file]
\* A map field whose value type is message `name` of file `file`.
MapField(name, file) ==
    [fieldKind |-> "map", listKind |-> "none", msgName |-> name, msgFile |-> file]
\* A scalar field: it refers to no message.
ScalarField ==
    [fieldKind |-> "scalar", listKind |-> "none", msgName |-> "", msgFile |-> ""]

(***************************************************************************)
(* The input files of the model: every dependency graph on the first n     *)
(* message names (n <= MaxMsgs), each laid out as fields in three ways.    *)
(* The declaration order is the order of MsgNames; since the graphs are    *)
(* closed under renaming, every declaration order of every graph occurs.   *)
(***************************************************************************)
\* The elements of a set of numbers as an ascending / descending sequence.
RECURSIVE Ascending(_)
Ascending(S) ==
    IF S = {} THEN <<>>
    ELSE LET m == CHOOSE x \in S : \A y \in S : x <= y
         IN  <<m>> \o Ascending(S \ {m})

RECURSIVE Descending(_)
Descending(S) ==
    IF S = {} THEN <<>>
    ELSE LET m == CHOOSE x \in S : \A y \in S : x >= y
         IN  <<m>> \o Descending(S \ {m})

FieldLayouts == {"message", "list", "mixed"}

\* The fields of message number i, which refers to the messages numbered in
\* targets.  "message": one singular field per target; "list": one repeated
\* field per target, in the opposite order; "mixed": singular and repeated
\* fields (a target may be referred to twice) among fields that refer to no
\* message of the analysed set: a scalar, a map whose value is the message
\* itself, a message of the same name in another file, and a message of the
\* current file that is not among the analysed ones.
FieldsFor(i, targets, layout) ==
    LET asc == Ascending(targets)
        desc == Descending(targets)
    IN  CASE layout = "message" ->
               [k \in 1..Len(asc) |-> MessageField(MsgNames[asc[k]], CurrentProtoPath)]
          [] layout = "list" ->
               [k \in 1..Len(desc) |-> ListField(MsgNames[desc[k]], CurrentProtoPath)]
          [] OTHER ->
               <<ScalarField, MapField(MsgNames[i], CurrentProtoPath)>>
               \o [k \in 1..Len(asc) |->
                     IF (i + asc[k]) % 2 = 0
                     THEN MessageField(MsgNames[asc[k]], CurrentProtoPath)
                     ELSE ListField(MsgNames[asc[k]], CurrentProtoPath)]
               \o <<MessageField(MsgNames[1], OtherProtoPath),
                     ListField(MsgNames[i], OtherProtoPath),
                     MessageField("Nested", CurrentProtoPath)>>
               \o [k \in 1..Len(desc) |-> ListField(MsgNames[desc[k]], CurrentProtoPath)]

\* The file of n messages whose message number i refers to refs[i].
InputFile(n, refs, layout) ==
    [i \in 1..n |-> [name |-> MsgNames[i], fields |-> FieldsFor(i, refs[i], layout)]]

(***************************************************************************)
(* Part I.  analyzeMessageDependencies(messages, currentProtoPath).        *)
(***************************************************************************)
VARIABLES
    messages,        \* the messages argument: the file's messages, in declaration order
    protoPath,       \* the currentProtoPath argument: file.name of the file
    pc,              \* the place of the call: start, cycles, dfs, kahn, queue, append, done
    dependencies,    \* Map: message name -> insertion-ordered Set of the names it references
    recursiveTypes,  \* Set of message names
    cycleIndex,      \* the position in messageNames of the loop that calls hasCycle
    stack,           \* the active hasCycle calls: [node, next], next the dep examined next
    visiting,        \* the Set threaded through the hasCycle calls of one search
    inDegree,        \* Map: message name -> number
    queue,           \* array of message names
    visited,         \* Set of message names
    result           \* array of messages

resolverVars == <<messages, protoPath, pc, dependencies, recursiveTypes, cycleIndex, stack,
                  visiting, inDegree, queue, visited, result>>

\* The state of a call of getValidationChain or generateFieldSchema on one
\* field (Part II); the resolver leaves it alone.
VARIABLES
    descField,       \* the field argument
    recursiveArg,    \* the recursiveTypes argument of generateFieldSchema
    step,            \* ready, extracted (getValidationChain returned), printed
    extracted,       \* the ValidationChain the last getValidationChain call returned
    warnings,        \* the messages written by console.error
    expression,      \* zodExpression when generateFieldSchema prints it, piece by piece
    printed          \* the lines printed to the generated file

extractorVars == <<descField, recursiveArg, step, extracted, warnings, expression, printed>>

\* The state of the calls of the type mapper and of the path helper that are
\* looked at on their own (Part III).
VARIABLES
    scalarCalls,     \* the mapScalarToZod calls so far: [scalar, zodType]
    pathArgs,        \* the arguments of a getRelativeImportPath call
    pathStep,        \* ready, returned
    importPath       \* the string the getRelativeImportPath call returned

mapperVars == <<scalarCalls, pathArgs, pathStep, importPath>>

\* The state of a run of the plugin (Part IV): parseOptions, then
\* generateZodSchemas over the files of the schema.
VARIABLES
    rawOptions,      \* the key/value pairs given to parseOptions
    pluginOptions,   \* schema.options
    filesLeft,       \* the number of files the loop of generateZodSchemas has yet to take
    descFile,        \* the file of the current iteration
    genStep,         \* parse, loop, analysis, fileDone
    opened,          \* schema.generateFile was called in the current iteration
    outputFileName,  \* its argument
    unitLines,       \* the lines printed to the generated file
    schemas          \* the message schemas printed to it: [name, lazy, fields]

generatorVars == <<rawOptions, pluginOptions, filesLeft, descFile, genStep, opened,
                   outputFileName, unitLines, schemas>>

\* What a call of analyzeMessageDependencies leaves alone.
callerVars == <<extractorVars, mapperVars, generatorVars, protoPath>>

vars == <<resolverVars, extractorVars, mapperVars, generatorVars>>

ExtractorIdle ==
    /\ descField = <<>>
    /\ recursiveArg = {}
    /\ step = "idle"
    /\ extracted = <<>>
    /\ warnings = <<>>
    /\ expression = <<>>
    /\ printed = <<>>

MapperIdle ==
    /\ scalarCalls = <<>>
    /\ pathArgs = <<>>
    /\ pathStep = "idle"
    /\ importPath = <<>>

GeneratorIdle ==
    /\ rawOptions = <<>>
    /\ pluginOptions = <<>>
    /\ filesLeft = 0
    /\ descFile = <<>>
    /\ genStep = "idle"
    /\ opened = FALSE
    /\ outputFileName = <<>>
    /\ unitLines = <<>>
    /\ schemas = <<>>

\* messages.map((m) => m.name), and the Set built from it.
NamesOf(msgs) == [i \in 1..Len(msgs) |-> msgs[i].name]

RECURSIVE ToOrderedSet(_)
ToOrderedSet(s) ==
    IF s = <<>> THEN <<>>
    ELSE SetAdd(ToOrderedSet(SubSeq(s, 1, Len(s) - 1)), s[Len(s)])

MessageNamesOf(msgs) == ToOrderedSet(NamesOf(msgs))

\* messages.find((m) => m.name === name)
FindMessage(msgs, name) ==
    msgs[CHOOSE i \in 1..Len(msgs) :
            /\ msgs[i].name = name
            /\ \A j \in 1..(i - 1) : msgs[j].name # name]

\* The test of the two branches of the graph-building loop: the field is a
\* singular message field, or a repeated message field, whose target is named
\* like a message of the analysed set and lives in the current file.
\* Mutant of SingularEdge: the file of the target is not compared with the
\* current file.
SingularEdgeOfAnyFile(field, messageNames, currentProtoPath) ==
    /\ field.fieldKind = "message"
    /\ Includes(messageNames, field.msgName)

SingularEdge(field, messageNames, currentProtoPath) ==
    /\ field.fieldKind = "message"
    /\ Includes(messageNames, field.msgName)
    /\ field.msgFile = currentProtoPath

\* Mutant of RepeatedEdge: the branch for repeated fields is missing.
RepeatedEdgeMissing(field, messageNames, currentProtoPath) == FALSE

RepeatedEdge(field, messageNames, currentProtoPath) ==
    /\ field.fieldKind = "list"
    /\ field.listKind = "message"
    /\ Includes(messageNames, field.msgName)
    /\ field.msgFile = currentProtoPath

AddsEdge(field, messageNames, currentProtoPath) ==
    \/ SingularEdge(field, messageNames, currentProtoPath)
    \/ RepeatedEdge(field, messageNames, currentProtoPath)

\* dependencies.get(msg.name) after the loop over msg.fields.
RECURSIVE FieldDependencies(_, _, _)
FieldDependencies(fields, messageNames, currentProtoPath) ==
    IF fields = <<>> THEN <<>>
    ELSE LET before == FieldDependencies(SubSeq(fields, 1, Len(fields) - 1),
                                         messageNames, currentProtoPath)
             field == fields[Len(fields)]
         IN  IF AddsEdge(field, messageNames, currentProtoPath)
             THEN SetAdd(before, field.msgName)
             ELSE before

\* The dependencies Map after the graph-building loop.
BuildDependencies(msgs, currentProtoPath) ==
    [name \in Range(NamesOf(msgs)) |->
        FieldDependencies(FindMessage(msgs, name).fields, MessageNamesOf(msgs),
                          currentProtoPath)]

\* recursiveTypes after the graph-building loop: the messages with a field
\* that adds an edge to the message itself.
SelfReferencing(msgs, currentProtoPath) ==
    {msgs[i].name : i \in {k \in 1..Len(msgs) :
        \E f \in 1..Len(msgs[k].fields) :
            /\ AddsEdge(msgs[k].fields[f], MessageNamesOf(msgs), currentProtoPath)
            /\ msgs[k].fields[f].msgName = msgs[k].name}}

Init ==
    /\ \E n \in 1..MaxMsgs :
         \E refs \in [1..n -> SUBSET (1..n)] :
           \E layout \in FieldLayouts :
             messages = InputFile(n, refs, layout)
    /\ protoPath = CurrentProtoPath
    /\ pc = "start"
    /\ dependencies = <<>>
    /\ recursiveTypes = {}
    /\ cycleIndex = 0
    /\ stack = <<>>
    /\ visiting = {}
    /\ inDegree = <<>>
    /\ queue = <<>>
    /\ visited = {}
    /\ result = <<>>
    /\ ExtractorIdle
    /\ MapperIdle
    /\ GeneratorIdle

\* Lines 409-444: messageNames, the dependencies Map and the self-references.
BuildGraphEnabled == pc = "start"

BuildGraph ==
    /\ BuildGraphEnabled
    /\ dependencies' = BuildDependencies(messages, protoPath)
    /\ recursiveTypes' = SelfReferencing(messages, protoPath)
    /\ cycleIndex' = 1
    /\ pc' = "cycles"
    /\ UNCHANGED <<callerVars, messages, stack, visiting, inDegree, queue, visited, result>>

\* Lines 447-448: the next message name of the loop; hasCycle is called on it
\* with a new Set, so the node is not in visiting and is added to it.
CycleCallEnabled ==
    /\ pc = "cycles"
    /\ cycleIndex <= Len(MessageNamesOf(messages))

CycleCall ==
    /\ CycleCallEnabled
    /\ visiting' = {MessageNamesOf(messages)[cycleIndex]}
    /\ stack' = <<[node |-> MessageNamesOf(messages)[cycleIndex], next |-> 1]>>
    /\ pc' = "dfs"
    /\ UNCHANGED <<callerVars, messages, dependencies, recursiveTypes, cycleIndex, inDegree,
                   queue, visited, result>>

\* The dep the innermost hasCycle call examines next, if any.
TopFrame == stack[Len(stack)]
TopDeps == dependencies[TopFrame.node]

\* Lines 525-526, 522-523: the call on the next dep, which is not in visiting:
\* it is added and its own loop starts.
HasCycleRecurseEnabled ==
    /\ pc = "dfs"
    /\ stack # <<>>
    /\ TopFrame.next <= Len(TopDeps)
    /\ TopDeps[TopFrame.next] \notin visiting

HasCycleRecurse ==
    /\ HasCycleRecurseEnabled
    /\ visiting' = visiting \cup {TopDeps[TopFrame.next]}
    /\ stack' = Append(stack, [node |-> TopDeps[TopFrame.next], next |-> 1])
    /\ UNCHANGED <<callerVars, messages, pc, dependencies, recursiveTypes, cycleIndex, inDegree,
                   queue, visited, result>>

\* Mutant of HasCycleFound: the message of a search that returns true is not
\* added to recursiveTypes.
HasCycleFoundNotRecorded ==
    /\ pc = "dfs"
    /\ stack # <<>>
    /\ TopFrame.next <= Len(TopDeps)
    /\ TopDeps[TopFrame.next] \in visiting
    /\ stack' = <<>>
    /\ visiting' = {}
    /\ cycleIndex' = cycleIndex + 1
    /\ pc' = "cycles"
    /\ UNCHANGED <<callerVars, messages, dependencies, recursiveTypes, inDegree, queue, visited,
                   result>>

\* Lines 522, 526-527, 448-449: the call on the next dep finds it in visiting
\* and returns true, every enclosing call returns true at once, and the loop
\* over messageNames adds its message to recursiveTypes.
HasCycleFoundEnabled ==
    /\ pc = "dfs"
    /\ stack # <<>>
    /\ TopFrame.next <= Len(TopDeps)
    /\ TopDeps[TopFrame.next] \in visiting

HasCycleFound ==
    /\ HasCycleFoundEnabled
    /\ recursiveTypes' = recursiveTypes \cup {MessageNamesOf(messages)[cycleIndex]}
    /\ stack' = <<>>
    /\ visiting' = {}
    /\ cycleIndex' = cycleIndex + 1
    /\ pc' = "cycles"
    /\ UNCHANGED <<callerVars, messages, dependencies, inDegree, queue, visited, result>>

\* Lines 531-532: the deps of the innermost call are exhausted: the node is
\* deleted from visiting and the call returns false, to the loop of the
\* enclosing call or to the loop over messageNames.
HasCycleReturnEnabled ==
    /\ pc = "dfs"
    /\ stack # <<>>
    /\ TopFrame.next > Len(TopDeps)

HasCycleReturn ==
    /\ HasCycleReturnEnabled
    /\ visiting' = visiting \ {TopFrame.node}
    /\ IF Len(stack) > 1
       THEN /\ stack' = [SubSeq(stack, 1, Len(stack) - 1) EXCEPT
                            ![Len(stack) - 1].next = @ + 1]
            /\ UNCHANGED <<pc, cycleIndex>>
       ELSE /\ stack' = <<>>
            /\ cycleIndex' = cycleIndex + 1
            /\ pc' = "cycles"
    /\ UNCHANGED <<callerVars, messages, dependencies, recursiveTypes, inDegree, queue, visited,
                   result>>

\* Line 451: the loop over messageNames is over.
CyclesDoneEnabled ==
    /\ pc = "cycles"
    /\ cycleIndex > Len(MessageNamesOf(messages))

CyclesDone ==
    /\ CyclesDoneEnabled
    /\ pc' = "kahn"
    /\ UNCHANGED <<callerVars, messages, dependencies, recursiveTypes, cycleIndex, stack, visiting,
                   inDegree, queue, visited, result>>

\* Array.from(deps).filter(d => d !== name && !recursiveTypes.has(d))
RECURSIVE NonSelfDeps(_, _, _)
NonSelfDeps(deps, name, recursive) ==
    IF deps = <<>> THEN <<>>
    ELSE IF Head(deps) # name /\ Head(deps) \notin recursive
         THEN <<Head(deps)>> \o NonSelfDeps(Tail(deps), name, recursive)
         ELSE NonSelfDeps(Tail(deps), name, recursive)

\* Lines 454-466: the number of messages that reference dep, not counting
\* dep itself, unless dep is recursive.
InDegreeOf(dep, msgs, deps, recursive) ==
    IF dep \in recursive THEN 0
    ELSE Cardinality({i \in 1..Len(msgs) :
            msgs[i].name # dep /\ Includes(deps[msgs[i].name], dep)})

\* Mutant of SeedQueue: only the messages without any dep are seeded.
RECURSIVE SeedQueueOfNoDeps(_, _, _)
SeedQueueOfNoDeps(msgs, deps, recursive) ==
    IF msgs = <<>> THEN <<>>
    ELSE LET before == SeedQueueOfNoDeps(SubSeq(msgs, 1, Len(msgs) - 1), deps, recursive)
             msg == msgs[Len(msgs)]
         IN  IF Len(deps[msg.name]) = 0
             THEN Append(before, msg.name)
             ELSE before

\* Lines 475-481: the messages without a dep that is neither the message
\* itself nor recursive, in declaration order.
RECURSIVE SeedQueue(_, _, _)
SeedQueue(msgs, deps, recursive) ==
    IF msgs = <<>> THEN <<>>
    ELSE LET before == SeedQueue(SubSeq(msgs, 1, Len(msgs) - 1), deps, recursive)
             msg == msgs[Len(msgs)]
         IN  IF Len(NonSelfDeps(deps[msg.name], msg.name, recursive)) = 0
             THEN Append(before, msg.name)
             ELSE before

\* Lines 453-481.
SeedEnabled == pc = "kahn"

Seed ==
    /\ SeedEnabled
    /\ inDegree' = [name \in DOMAIN dependencies |->
                       InDegreeOf(name, messages, dependencies, recursiveTypes)]
    /\ queue' = SeedQueue(messages, dependencies, recursiveTypes)
    /\ visited' = {}
    /\ result' = <<>>
    /\ pc' = "queue"
    /\ UNCHANGED <<callerVars, messages, dependencies, recursiveTypes, cycleIndex, stack, visiting>>

\* Lines 484-485: the name taken from the queue was visited already.
QueueSkipEnabled ==
    /\ pc = "queue"
    /\ queue # <<>>
    /\ Head(queue) \in visited

QueueSkip ==
    /\ QueueSkipEnabled
    /\ queue' = Tail(queue)
    /\ UNCHANGED <<callerVars, messages, pc, dependencies, recursiveTypes, cycleIndex, stack,
                   visiting, inDegree, visited, result>>

\* Mutant of Unblocked: a message is pushed as soon as one of its deps is
\* visited, without the test that all its non-recursive deps are.
RECURSIVE UnblockedEager(_, _, _, _, _)
UnblockedEager(names, name, deps, recursive, seen) ==
    IF names = <<>> THEN <<>>
    ELSE LET otherName == Head(names)
             rest == UnblockedEager(Tail(names), name, deps, recursive, seen)
         IN  IF otherName \notin seen /\ Includes(deps[otherName], name)
             THEN <<otherName>> \o rest
             ELSE rest

\* Lines 492-501: the names the loop over the dependencies Map pushes once
\* name is visited, in the order of the Map (the declaration order).
RECURSIVE Unblocked(_, _, _, _, _)
Unblocked(names, name, deps, recursive, seen) ==
    IF names = <<>> THEN <<>>
    ELSE LET otherName == Head(names)
             rest == Unblocked(Tail(names), name, deps, recursive, seen)
         IN  IF /\ otherName \notin seen
                /\ Includes(deps[otherName], name)
                /\ \A d \in Range(NonSelfDeps(deps[otherName], otherName, recursive)) :
                       d \in seen
             THEN <<otherName>> \o rest
             ELSE rest

\* Mutant of QueueVisit: the name taken from the queue is not tested against
\* visited.
QueueVisitUnchecked ==
    /\ pc = "queue"
    /\ queue # <<>>
    /\ visited' = visited \cup {Head(queue)}
    /\ result' = Append(result, FindMessage(messages, Head(queue)))
    /\ queue' = Tail(queue) \o Unblocked(NamesOf(messages), Head(queue), dependencies,
                                         recursiveTypes, visited')
    /\ UNCHANGED <<callerVars, messages, pc, dependencies, recursiveTypes, cycleIndex, stack,
                   visiting, inDegree>>

\* Mutant of QueueVisit: the name taken from the queue is not added to visited.
QueueVisitNotMarked ==
    /\ pc = "queue"
    /\ queue # <<>>
    /\ Head(queue) \notin visited
    /\ result' = Append(result, FindMessage(messages, Head(queue)))
    /\ queue' = Tail(queue) \o Unblocked(NamesOf(messages), Head(queue), dependencies,
                                         recursiveTypes, visited)
    /\ UNCHANGED <<callerVars, messages, pc, dependencies, recursiveTypes, cycleIndex, stack,
                   visiting, inDegree, visited>>

\* Lines 484-501: the name taken from the queue is visited, its message is
\* pushed to the result, and the messages it unblocks are pushed to the queue.
QueueVisitEnabled ==
    /\ pc = "queue"
    /\ queue # <<>>
    /\ Head(queue) \notin visited

QueueVisit ==
    /\ QueueVisitEnabled
    /\ visited' = visited \cup {Head(queue)}
    /\ result' = Append(result, FindMessage(messages, Head(queue)))
    /\ queue' = Tail(queue) \o Unblocked(NamesOf(messages), Head(queue), dependencies,
                                         recursiveTypes, visited')
    /\ UNCHANGED <<callerVars, messages, pc, dependencies, recursiveTypes, cycleIndex, stack,
                   visiting, inDegree>>

\* Line 483: the queue is empty.
QueueEmptyEnabled ==
    /\ pc = "queue"
    /\ queue = <<>>

QueueEmpty ==
    /\ QueueEmptyEnabled
    /\ pc' = "append"
    /\ UNCHANGED <<callerVars, messages, dependencies, recursiveTypes, cycleIndex, stack, visiting,
                   inDegree, queue, visited, result>>

\* Lines 505-509: the messages that are not in the result, in declaration order.
RECURSIVE Remaining(_, _)
Remaining(msgs, res) ==
    IF msgs = <<>> THEN <<>>
    ELSE IF Includes(res, Head(msgs))
         THEN Remaining(Tail(msgs), res)
         ELSE <<Head(msgs)>> \o Remaining(Tail(msgs), res \o <<Head(msgs)>>)

\* Lines 504-511: the remaining messages are appended and the call returns
\* {sortedMessages: result, recursiveTypes}.
AppendRemainingEnabled == pc = "append"

AppendRemaining ==
    /\ AppendRemainingEnabled
    /\ result' = result \o Remaining(messages, result)
    /\ pc' = "done"
    /\ UNCHANGED <<callerVars, messages, dependencies, recursiveTypes, cycleIndex, stack, visiting,
                   inDegree, queue, visited>>

Next ==
    \/ BuildGraph
    \/ CycleCall
    \/ HasCycleRecurse
    \/ HasCycleFound
    \/ HasCycleReturn
    \/ CyclesDone
    \/ Seed
    \/ QueueSkip
    \/ QueueVisit
    \/ QueueEmpty
    \/ AppendRemaining

Spec == Init /\ [][Next]_vars

\* The call returns: with weak fairness of its steps it cannot stop half way.
FairSpec == Spec /\ WF_vars(Next)

\* The value returned by analyzeMessageDependencies.
sortedMessages == result

(***************************************************************************)
(* The notions the statements about the resolver are written in, defined   *)
(* from the input alone.                                                   *)
(***************************************************************************)
MsgNameSet == {messages[i].name : i \in 1..Len(messages)}

\* Message m has a singular or repeated message-typed field whose target is
\* message n of the current file.
References(m, n) ==
    \E i \in 1..Len(messages) :
        /\ messages[i].name = m
        /\ \E f \in 1..Len(messages[i].fields) :
              LET field == messages[i].fields[f]
              IN  /\ \/ field.fieldKind = "message"
                     \/ field.fieldKind = "list" /\ field.listKind = "message"
                  /\ field.msgName = n
                  /\ field.msgFile = protoPath

\* The messages reached from the set S by at most k references.
RECURSIVE ReachedWithin(_, _)
ReachedWithin(S, k) ==
    IF k = 0 THEN S
    ELSE LET R == ReachedWithin(S, k - 1)
         IN  R \cup {n \in MsgNameSet : \E m \in R : References(m, n)}

\* The messages reached from m by one reference or more.
ReachableFrom(m) ==
    ReachedWithin({n \in MsgNameSet : References(m, n)}, Len(messages))

\* m lies on a cycle of the dependency graph (a self-reference is a cycle of
\* length 1).
OnCycle(m) == m \in ReachableFrom(m)

\* m lies on a cycle of length 2 or more: it reaches itself through another
\* message.
OnMultiStepCycle(m) ==
    \E n \in MsgNameSet \ {m} : n \in ReachableFrom(m) /\ m \in ReachableFrom(n)

\* The names of the emission order, and the place of a name in it (0 if none).
EmissionOrder == NamesOf(sortedMessages)
PlaceOf(name) ==
    IF Includes(EmissionOrder, name)
    THEN CHOOSE i \in 1..Len(EmissionOrder) : EmissionOrder[i] = name
    ELSE 0

(***************************************************************************)
(* Statements about the resolver.                                          *)
(***************************************************************************)

\* C1: for every set of messages passed to analyzeMessageDependencies, whatever
\* the dependency graph, sortedMessages contains every input message exactly
\* once and nothing else.
C1_EveryMessageExactlyOnce ==
    pc = "done" =>
        /\ \A i \in 1..Len(messages) : Count(sortedMessages, messages[i]) = 1
        /\ Range(sortedMessages) \subseteq Range(messages)
        /\ Len(sortedMessages) = Len(messages)

\* A returned order for a file with a self-referencing message, a multi-step
\* cycle and a message without any reference to or from the others.
C1_Witness ==
    /\ pc = "done"
    /\ Len(messages) = MaxMsgs
    /\ \E m \in MsgNameSet : References(m, m)
    /\ \E m \in MsgNameSet : OnMultiStepCycle(m)
    /\ \E m \in MsgNameSet :
          \A n \in MsgNameSet : ~References(m, n) /\ ~References(n, m)

\* C2: when the call has returned, every message N of the file that an emitted
\* message M references through a singular or repeated field, with N # M and N
\* not in recursiveTypes, is placed before M in the emission order.
C2_NonRecursiveDepsFirst ==
    pc = "done" =>
        \A m \in MsgNameSet : \A n \in MsgNameSet :
            (References(m, n) /\ n # m /\ n \notin recursiveTypes)
                => (PlaceOf(n) > 0 /\ PlaceOf(n) < PlaceOf(m))

\* A declared before B, A references B and B does not reference A: the order
\* is [B, A] and no message is recursive.
C2_Witness ==
    /\ pc = "done"
    /\ NamesOf(messages) = <<"A", "B">>
    /\ References("A", "B")
    /\ ~References("B", "A")
    /\ recursiveTypes = {}
    /\ EmissionOrder = <<"B", "A">>

\* C3: recursiveTypes is exactly the set of the messages that lie on a cycle
\* of the dependency graph; a message that only references a recursive message
\* is not in it.
C3_RecursiveIffOnCycle ==
    pc = "done" => recursiveTypes = {m \in MsgNameSet : OnCycle(m)}

\* C4: a message with a singular or repeated field of its own type is in
\* recursiveTypes and is in the emission order exactly once.
C4_SelfReferenceRecursiveOnce ==
    pc = "done" =>
        \A m \in MsgNameSet :
            References(m, m) => (m \in recursiveTypes /\ Count(EmissionOrder, m) = 1)

\* A returned result for a message that references itself and lies on no
\* longer cycle.
C4_Witness ==
    /\ pc = "done"
    /\ \E m \in MsgNameSet :
          /\ References(m, m)
          /\ ~OnMultiStepCycle(m)
          /\ m \in recursiveTypes
          /\ Count(EmissionOrder, m) = 1

\* C5: every message on a cycle of two or more messages is in recursiveTypes,
\* and the call returns an order that contains it exactly once.
C5_CycleMembersRecursiveOnce ==
    pc = "done" =>
        \A m \in MsgNameSet :
            OnMultiStepCycle(m) => (m \in recursiveTypes /\ Count(EmissionOrder, m) = 1)

\* A returned result for the three-step cycle A -> B -> C -> A without any
\* other reference.
C5_Witness ==
    /\ pc = "done"
    /\ NamesOf(messages) = <<"A", "B", "C">>
    /\ \A m \in MsgNameSet : \A n \in MsgNameSet :
          References(m, n) <=> <<m, n>> \in {<<"A", "B">>, <<"B", "C">>, <<"C", "A">>}
    /\ recursiveTypes = {"A", "B", "C"}
    /\ Len(sortedMessages) = 3

(***************************************************************************)
(* Termination.  Rank is a natural number that every step of the call      *)
(* makes smaller.  In the cycle detection it counts down the position of   *)
(* the depth-first search: the next indices of the active hasCycle calls,  *)
(* outermost first, read as the digits of a number in base NumMsgs + 2     *)
(* (a call has at most NumMsgs deps and the active path at most NumMsgs    *)
(* nodes), after the index of the loop over messageNames.  In the queue    *)
(* loop it counts the messages not yet visited (each visit pushes fewer    *)
(* than NumMsgs + 1 names) and the length of the queue.                    *)
(***************************************************************************)
NumMsgs == Len(messages)
RankBase == NumMsgs + 2

RECURSIVE Pow(_, _)
Pow(b, e) == IF e = 0 THEN 1 ELSE b * Pow(b, e - 1)

RECURSIVE DfsProgress(_)
DfsProgress(d) ==
    IF d > Len(stack) \/ d > NumMsgs THEN 0
    ELSE stack[d].next * Pow(RankBase, NumMsgs - d) + DfsProgress(d + 1)

CycleSpan == Pow(RankBase, NumMsgs + 1)
QueueSpan == (NumMsgs + 1) * (NumMsgs + 1) + 3

Rank ==
    CASE pc = "start" -> (NumMsgs + 3) * CycleSpan + QueueSpan + 10
      [] pc \in {"cycles", "dfs"} ->
            ((NumMsgs + 2) * CycleSpan - (cycleIndex * CycleSpan + DfsProgress(1)))
            + QueueSpan + 5
      [] pc = "kahn" -> QueueSpan + 4
      [] pc = "queue" ->
            IF Cardinality(visited) > NumMsgs THEN 0
            ELSE (NumMsgs - Cardinality(visited)) * (NumMsgs + 1) + Len(queue) + 2
      [] pc = "append" -> 1
      [] OTHER -> 0

\* Some step of the call can be taken: the condition of one of its steps holds.
CanStep ==
    \/ BuildGraphEnabled
    \/ CycleCallEnabled
    \/ HasCycleRecurseEnabled
    \/ HasCycleFoundEnabled
    \/ HasCycleReturnEnabled
    \/ CyclesDoneEnabled
    \/ SeedEnabled
    \/ QueueSkipEnabled
    \/ QueueVisitEnabled
    \/ QueueEmptyEnabled
    \/ AppendRemainingEnabled

\* C6: analyzeMessageDependencies terminates on every finite set of messages:
\* every step of the call (of a hasCycle search, of the queue loop) lowers
\* Rank, and every state of the call has a further step unless the call has
\* returned; so every call returns after at most Rank steps, and there is no
\* state in which it fails or stops without a result.
C6_AnalysisTerminates ==
    /\ [][Rank' < Rank]_resolverVars
    /\ [](pc = "done" \/ CanStep)

\* A returned result for a graph whose cycles overlap: B lies on a cycle with
\* A and on another one with C.
C6_Witness ==
    /\ pc = "done"
    /\ NamesOf(messages) = <<"A", "B", "C">>
    /\ References("A", "B") /\ References("B", "A")
    /\ References("B", "C") /\ References("C", "B")
    /\ Len(sortedMessages) = 3

\* A cycle is reached from m by references to messages of the current file.
ReachesCycle(m) == OnCycle(m) \/ \E n \in ReachableFrom(m) : OnCycle(n)

\* C16: every edge of the dependency graph comes from a singular or repeated
\* field whose target is a message of the current file, and every message in
\* recursiveTypes reaches a cycle of such references: a field whose target
\* is in another file adds no edge and makes no message recursive, whatever
\* the name of its target.
C16_OtherFileNeverAnEdge ==
    /\ pc \notin {"start", "idle"} =>
           \A m \in DOMAIN dependencies :
               \A d \in Range(dependencies[m]) : References(m, d)
    /\ \A m \in recursiveTypes : ReachesCycle(m)

\* A message whose only message-typed fields are a repeated field of a
\* message of its own name in another file, a field of a message in another
\* file and one of a message that is not analysed: no edge, not recursive.
C16_Witness ==
    /\ pc = "done"
    /\ Len(messages) = 1
    /\ \E f \in 1..Len(messages[1].fields) :
           messages[1].fields[f] = ListField(messages[1].name, OtherProtoPath)
    /\ dependencies[messages[1].name] = <<>>
    /\ recursiveTypes = {}

\* C28: the queue traversal alone schedules every message.  Once the queue
\* is empty every message of the file is visited and in the result, so the
\* loop that appends the remaining messages has none to append, and the
\* result begins with the messages that have no dependency other than
\* themselves and recursive types, in declaration order.
C28_QueueSchedulesEveryMessage ==
    pc \in {"append", "done"} =>
        /\ visited = MsgNameSet
        /\ pc = "append" => Remaining(messages, result) = <<>>
        /\ Len(result) = Len(messages)
        /\ LET first == SeedQueue(messages, dependencies, recursiveTypes)
           IN  /\ Len(first) <= Len(result)
               /\ SubSeq(NamesOf(result), 1, Len(first)) = first

\* Three messages, one of them recursive, of which just one has no
\* dependency to wait for: the queue reached the other two through it.
C28_Witness ==
    /\ pc = "done"
    /\ Len(messages) = 3
    /\ recursiveTypes # {}
    /\ Len(SeedQueue(messages, dependencies, recursiveTypes)) = 1
    /\ visited = MsgNameSet
    /\ NamesOf(result) # NamesOf(messages)

(***************************************************************************)
(* Part II.  The Constraint Extractor (getValidationChain and the per-kind *)
(* processors of the validation mapper, src/index.ts) and the rendering of *)
(* one field (generateFieldSchema, src/tools/zod/src/generator.ts, with    *)
(* mapFieldToZod and isFieldOptional of the type mapper,                   *)
(* src/unnamed/part_000).                        (specification ChainSpec) *)
(*                                                                         *)
(* JavaScript strings are TLA+ strings, built with \o as the template      *)
(* literals build them.  A string that the code inspects character by      *)
(* character (a regex pattern, a field name) is a sequence of one-character *)
(* strings until it is written into the output.  A value that may be       *)
(* undefined is a sequence of length 0 (undefined) or 1.                   *)
(***************************************************************************)
None == <<>>
Some(x) == <<x>>
IsDefined(opt) == opt # <<>>
ValueOf(opt) == opt[1]

\* Array.prototype.join("") and join(sep) on an array of strings.
RECURSIVE Join(_)
Join(parts) == IF parts = <<>> THEN "" ELSE Head(parts) \o Join(Tail(parts))

RECURSIVE JoinWith(_, _)
JoinWith(parts, sep) ==
    IF parts = <<>> THEN ""
    ELSE IF Len(parts) = 1 THEN Head(parts)
         ELSE Head(parts) \o sep \o JoinWith(Tail(parts), sep)

\* String(n) for an integer n, as a template literal or Number(n) prints it.
DigitChars == <<"0", "1", "2", "3", "4", "5", "6", "7", "8", "9">>

RECURSIVE NatToString(_)
NatToString(n) ==
    IF n < 10 THEN DigitChars[n + 1]
    ELSE NatToString(n \div 10) \o DigitChars[(n % 10) + 1]

IntToString(n) == IF n < 0 THEN "-" \o NatToString(0 - n) ELSE NatToString(n)

\* values.map((v) => String(v)) and values.map((v) => `${v}n`)
IntStrings(values) == [i \in 1..Len(values) |-> IntToString(values[i])]
BigIntLiterals(values) == [i \in 1..Len(values) |-> IntToString(values[i]) \o "n"]

(***************************************************************************)
(* The annotation payload of a field: field.proto.options and the          *)
(* buf.validate.field extension in it.                                     *)
(***************************************************************************)
\* A oneof that is not set: {case: undefined, value: undefined}.
NoBound == [case |-> "none", value |-> 0]
NoWellKnown == [case |-> "none", value |-> FALSE]
NoItems == [case |-> "none", value |-> None]

\* buf.validate StringRules / BytesRules / the numeric rules / FloatRules /
\* BoolRules / EnumRules / RepeatedRules / MapRules, as far as the processors
\* read them.  A record holds every member of its kind; a member the kind
\* does not have is never read.
StringRules(minLen, maxLen, len, pattern, prefix, suffix, contains, wellKnown) ==
    [minLen |-> minLen, maxLen |-> maxLen, len |-> len, pattern |-> pattern,
     prefix |-> prefix, suffix |-> suffix, contains |-> contains,
     wellKnown |-> wellKnown]

BytesRules(minLen, maxLen) == [minLen |-> minLen, maxLen |-> maxLen]

NumericRules(greaterThan, lessThan, const, in, notIn) ==
    [greaterThan |-> greaterThan, lessThan |-> lessThan, const |-> const,
     in |-> in, notIn |-> notIn]

FloatRules(greaterThan, lessThan, finite) ==
    [greaterThan |-> greaterThan, lessThan |-> lessThan, finite |-> finite]

BoolRules(const) == [const |-> const]

EnumRules(definedOnly, in, notIn) ==
    [definedOnly |-> definedOnly, in |-> in, notIn |-> notIn]

RepeatedRules(minItems, maxItems, unique, items) ==
    [minItems |-> minItems, maxItems |-> maxItems, unique |-> unique, items |-> items]

MapRules(minPairs, maxPairs) == [minPairs |-> minPairs, maxPairs |-> maxPairs]

\* The value of the extension: {required, type: {case, value}}.  value is
\* None when the oneof names a case whose value is undefined.
Constraints(required, case, value) ==
    [required |-> required, type |-> [case |-> case, value |-> value]]

\* field.proto.options: None (no options), or options whose extension is
\* absent, present, or present but not decodable (reading it throws).
NoOptions == None
OptionsWithoutExtension ==
    Some([extension |-> "absent", constraints |-> Constraints(FALSE, "none", None)])
UndecodableOptions ==
    Some([extension |-> "undecodable", constraints |-> Constraints(FALSE, "none", None)])
OptionsWith(constraints) == Some([extension |-> "present", constraints |-> constraints])

(***************************************************************************)
(* The ValidationChain and the processors that fill it.  A processor is    *)
(* called with type.value and the chain and mutates the chain; it returns  *)
(* the chain as it leaves it and whether it threw.  Reading a member of an *)
(* undefined type.value throws a TypeError, before the processor has       *)
(* changed anything.                                                       *)
(***************************************************************************)
\* Lines 276-282: the chain getValidationChain starts from.
EmptyChain ==
    [methods |-> <<>>, required |-> FALSE, enumDefinedOnly |-> FALSE,
     itemMethods |-> <<>>, itemEnumNotIn |-> <<>>,
     stringPattern |-> None, itemStringPattern |-> None]

Returned(chain) == [chain |-> chain, threw |-> FALSE]
Thrown(chain) == [chain |-> chain, threw |-> TRUE]

\* Number(v) of a bigint or number v and its decimal text in a template
\* literal: exact for every |v| < 2^53, which the values of the model are.
NumberString(v) == IntToString(v)

\* Mutant of ExplicitBound: the bound is not compared with zero.
ExplicitBoundAnyValue(bound) == IsDefined(bound)

\* constraints.maxLen !== undefined && constraints.maxLen > 0n, and the same
\* test of minLen, len, minItems, maxItems, minPairs and maxPairs.
ExplicitBound(bound) == IsDefined(bound) /\ ValueOf(bound) > 0

\* list.push(item) if test holds.
PushIf(list, test, item) == IF test THEN Append(list, item) ELSE list

\* The switch on wellKnown.case of processStringConstraints.
StringFormatMethods(wellKnown) ==
    IF ~wellKnown.value THEN <<>>
    ELSE CASE wellKnown.case = "email" -> <<".email()">>
           [] wellKnown.case = "hostname" -> <<".regex(/^[a-zA-Z0-9][a-zA-Z0-9-]*$/)">>
           [] wellKnown.case = "ip" -> <<".ip()">>
           [] wellKnown.case = "ipv4" -> <<".ip({ version: \"v4\" })">>
           [] wellKnown.case = "ipv6" -> <<".ip({ version: \"v6\" })">>
           [] wellKnown.case = "uri" -> <<".url()">>
           [] wellKnown.case = "uuid" -> <<".uuid()">>
           [] OTHER -> <<>>

\* The switch on wellKnown.case of processStringItemConstraints.
StringItemFormatMethods(wellKnown) ==
    IF ~wellKnown.value THEN <<>>
    ELSE CASE wellKnown.case = "email" -> <<".email()">>
           [] wellKnown.case = "uuid" -> <<".uuid()">>
           [] wellKnown.case = "uri" -> <<".url()">>
           [] wellKnown.case = "ip" -> <<".ip()">>
           [] wellKnown.case = "ipv4" -> <<".ip({ version: \"v4\" })">>
           [] wellKnown.case = "ipv6" -> <<".ip({ version: \"v6\" })">>
           [] OTHER -> <<>>

processStringConstraints(value, chain) ==
    IF ~IsDefined(value) THEN Thrown(chain)
    ELSE LET constraints == ValueOf(value)
             m1 == IF ExplicitBound(constraints.minLen)
                   THEN Append(chain.methods,
                               ".min(" \o NumberString(ValueOf(constraints.minLen)) \o ")")
                   ELSE chain.methods
             m2 == IF ExplicitBound(constraints.maxLen)
                   THEN Append(m1, ".max(" \o NumberString(ValueOf(constraints.maxLen)) \o ")")
                   ELSE m1
             m3 == IF ExplicitBound(constraints.len)
                   THEN Append(m2, ".length(" \o NumberString(ValueOf(constraints.len)) \o ")")
                   ELSE m2
             m4 == PushIf(m3, constraints.prefix # "",
                          ".startsWith(\"" \o constraints.prefix \o "\")")
             m5 == PushIf(m4, constraints.suffix # "",
                          ".endsWith(\"" \o constraints.suffix \o "\")")
             m6 == PushIf(m5, constraints.contains # "",
                          ".includes(\"" \o constraints.contains \o "\")")
         IN  Returned([chain EXCEPT
                 !.methods = m6 \o StringFormatMethods(constraints.wellKnown),
                 !.stringPattern = IF constraints.pattern # <<>>
                                   THEN Some(constraints.pattern) ELSE @])

processBytesConstraints(value, chain) ==
    IF ~IsDefined(value) THEN Thrown(chain)
    ELSE LET constraints == ValueOf(value)
             m1 == IF ExplicitBound(constraints.minLen)
                   THEN Append(chain.methods,
                               ".refine((b) => b.length >= "
                               \o NumberString(ValueOf(constraints.minLen))
                               \o ", { message: \"Bytes must be at least "
                               \o IntToString(ValueOf(constraints.minLen)) \o " bytes\" })")
                   ELSE chain.methods
             m2 == IF ExplicitBound(constraints.maxLen)
                   THEN Append(m1,
                               ".refine((b) => b.length <= "
                               \o NumberString(ValueOf(constraints.maxLen))
                               \o ", { message: \"Bytes must be at most "
                               \o IntToString(ValueOf(constraints.maxLen)) \o " bytes\" })")
                   ELSE m1
         IN  Returned([chain EXCEPT !.methods = m2])

\* Mutant of NumericBoundMethods: the upper bound is pushed first.
NumericBoundMethodsUpperFirst(greaterThan, lessThan) ==
    (CASE lessThan.case = "lt" -> <<".lt(" \o NumberString(lessThan.value) \o ")">>
       [] lessThan.case = "lte" -> <<".lte(" \o NumberString(lessThan.value) \o ")">>
       [] OTHER -> <<>>)
    \o
    (CASE greaterThan.case = "gt" -> <<".gt(" \o NumberString(greaterThan.value) \o ")">>
       [] greaterThan.case = "gte" -> <<".gte(" \o NumberString(greaterThan.value) \o ")">>
       [] OTHER -> <<>>)

\* The two switches on greaterThan.case and lessThan.case of
\* processNumericConstraints and processNumericItemConstraints.
NumericBoundMethods(greaterThan, lessThan) ==
    (CASE greaterThan.case = "gt" -> <<".gt(" \o NumberString(greaterThan.value) \o ")">>
       [] greaterThan.case = "gte" -> <<".gte(" \o NumberString(greaterThan.value) \o ")">>
       [] OTHER -> <<>>)
    \o
    (CASE lessThan.case = "lt" -> <<".lt(" \o NumberString(lessThan.value) \o ")">>
       [] lessThan.case = "lte" -> <<".lte(" \o NumberString(lessThan.value) \o ")">>
       [] OTHER -> <<>>)

\* The same two switches of processInt64Constraints and
\* processInt64ItemConstraints: the value is compared as a BigInt.
Int64BoundMethod(op, value) ==
    ".refine((s) => BigInt(s) " \o op \o " " \o IntToString(value)
    \o "n, { message: \"Must be " \o op \o " " \o IntToString(value) \o "\" })"

\* Mutant of Int64BoundMethods: a bound of value zero is not set.
Int64BoundMethodsNonZero(greaterThan, lessThan) ==
    (CASE greaterThan.case = "gt" /\ greaterThan.value # 0 ->
              <<Int64BoundMethod(">", greaterThan.value)>>
       [] greaterThan.case = "gte" /\ greaterThan.value # 0 ->
              <<Int64BoundMethod(">=", greaterThan.value)>>
       [] OTHER -> <<>>)
    \o
    (CASE lessThan.case = "lt" /\ lessThan.value # 0 ->
              <<Int64BoundMethod("<", lessThan.value)>>
       [] lessThan.case = "lte" /\ lessThan.value # 0 ->
              <<Int64BoundMethod("<=", lessThan.value)>>
       [] OTHER -> <<>>)

Int64BoundMethods(greaterThan, lessThan) ==
    (CASE greaterThan.case = "gt" -> <<Int64BoundMethod(">", greaterThan.value)>>
       [] greaterThan.case = "gte" -> <<Int64BoundMethod(">=", greaterThan.value)>>
       [] OTHER -> <<>>)
    \o
    (CASE lessThan.case = "lt" -> <<Int64BoundMethod("<", lessThan.value)>>
       [] lessThan.case = "lte" -> <<Int64BoundMethod("<=", lessThan.value)>>
       [] OTHER -> <<>>)

\* constraints.const !== undefined && Number(constraints.const) !== 0
NonZeroConst(const) == IsDefined(const) /\ ValueOf(const) # 0

processNumericConstraints(value, chain) ==
    IF ~IsDefined(value) THEN Thrown(chain)
    ELSE LET constraints == ValueOf(value)
             m1 == chain.methods
                   \o NumericBoundMethods(constraints.greaterThan, constraints.lessThan)
             m2 == IF NonZeroConst(constraints.const)
                   THEN Append(m1, ".refine((n) => n === "
                                   \o NumberString(ValueOf(constraints.const))
                                   \o ", { message: \"Must equal "
                                   \o IntToString(ValueOf(constraints.const)) \o "\" })")
                   ELSE m1
             inValues == JoinWith(IntStrings(constraints.in), ", ")
             m3 == PushIf(m2, Len(constraints.in) > 0,
                          ".refine((n) => [" \o inValues
                          \o "].includes(n), { message: \"Must be one of: "
                          \o inValues \o "\" })")
             notInValues == JoinWith(IntStrings(constraints.notIn), ", ")
             m4 == PushIf(m3, Len(constraints.notIn) > 0,
                          ".refine((n) => ![" \o notInValues
                          \o "].includes(n), { message: \"Must not be one of: "
                          \o notInValues \o "\" })")
         IN  Returned([chain EXCEPT !.methods = m4])

processInt64Constraints(value, chain) ==
    IF ~IsDefined(value) THEN Thrown(chain)
    ELSE LET constraints == ValueOf(value)
             m1 == chain.methods
                   \o Int64BoundMethods(constraints.greaterThan, constraints.lessThan)
             m2 == IF NonZeroConst(constraints.const)
                   THEN Append(m1, ".refine((s) => BigInt(s) === "
                                   \o IntToString(ValueOf(constraints.const))
                                   \o "n, { message: \"Must equal "
                                   \o IntToString(ValueOf(constraints.const)) \o "\" })")
                   ELSE m1
             m3 == PushIf(m2, Len(constraints.in) > 0,
                          ".refine((s) => ["
                          \o JoinWith(BigIntLiterals(constraints.in), ", ")
                          \o "].includes(BigInt(s)), { message: \"Must be one of: "
                          \o JoinWith(IntStrings(constraints.in), ", ") \o "\" })")
             m4 == PushIf(m3, Len(constraints.notIn) > 0,
                          ".refine((s) => !["
                          \o JoinWith(BigIntLiterals(constraints.notIn), ", ")
                          \o "].includes(BigInt(s)), { message: \"Must not be one of: "
                          \o JoinWith(IntStrings(constraints.notIn), ", ") \o "\" })")
         IN  Returned([chain EXCEPT !.methods = m4])

\* The values of the model are doubles that are whole numbers, which a
\* template literal prints as integers.
processFloatConstraints(value, chain) ==
    IF ~IsDefined(value) THEN Thrown(chain)
    ELSE LET constraints == ValueOf(value)
             m1 == chain.methods
                   \o NumericBoundMethods(constraints.greaterThan, constraints.lessThan)
         IN  Returned([chain EXCEPT
                 !.methods = PushIf(m1, constraints.finite, ".finite()")])

BooleanString(b) == IF b THEN "true" ELSE "false"

\* Mutant of processBoolConstraints: a constant of false is not set.
processBoolConstraintsTruthy(value, chain) ==
    IF ~IsDefined(value) THEN Thrown(chain)
    ELSE LET constraints == ValueOf(value)
         IN  Returned([chain EXCEPT !.methods =
                 IF IsDefined(constraints.const) /\ ValueOf(constraints.const)
                 THEN Append(@, ".refine((b) => b === true, { message: \"Must be true\" })")
                 ELSE @])

processBoolConstraints(value, chain) ==
    IF ~IsDefined(value) THEN Thrown(chain)
    ELSE LET constraints == ValueOf(value)
         IN  Returned([chain EXCEPT !.methods =
                 IF IsDefined(constraints.const)
                 THEN Append(@, ".refine((b) => b === "
                                \o BooleanString(ValueOf(constraints.const))
                                \o ", { message: \"Must be "
                                \o BooleanString(ValueOf(constraints.const)) \o "\" })")
                 ELSE @])

processEnumConstraints(value, chain) ==
    IF ~IsDefined(value) THEN Thrown(chain)
    ELSE LET constraints == ValueOf(value)
             inValues == JoinWith(IntStrings(constraints.in), ", ")
             m1 == PushIf(chain.methods, Len(constraints.in) > 0,
                          ".refine((e) => [" \o inValues
                          \o "].includes(e), { message: \"Must be one of: "
                          \o inValues \o "\" })")
             notInValues == JoinWith(IntStrings(constraints.notIn), ", ")
             m2 == PushIf(m1, Len(constraints.notIn) > 0,
                          ".refine((e) => ![" \o notInValues
                          \o "].includes(e), { message: \"Must not be one of: "
                          \o notInValues \o "\" })")
         IN  Returned([chain EXCEPT
                 !.enumDefinedOnly = IF constraints.definedOnly THEN TRUE ELSE @,
                 !.methods = m2])

processStringItemConstraints(value, chain) ==
    IF ~IsDefined(value) THEN Thrown(chain)
    ELSE LET constraints == ValueOf(value)
             m1 == IF ExplicitBound(constraints.minLen)
                   THEN Append(chain.itemMethods,
                               ".min(" \o NumberString(ValueOf(constraints.minLen)) \o ")")
                   ELSE chain.itemMethods
             m2 == IF ExplicitBound(constraints.maxLen)
                   THEN Append(m1, ".max(" \o NumberString(ValueOf(constraints.maxLen)) \o ")")
                   ELSE m1
             m3 == PushIf(m2, constraints.prefix # "",
                          ".startsWith(\"" \o constraints.prefix \o "\")")
             m4 == PushIf(m3, constraints.suffix # "",
                          ".endsWith(\"" \o constraints.suffix \o "\")")
         IN  Returned([chain EXCEPT
                 !.itemMethods = m4 \o StringItemFormatMethods(constraints.wellKnown),
                 !.itemStringPattern = IF constraints.pattern # <<>>
                                       THEN Some(constraints.pattern) ELSE @])

processEnumItemConstraints(value, chain) ==
    IF ~IsDefined(value) THEN Thrown(chain)
    ELSE LET constraints == ValueOf(value)
         IN  Returned([chain EXCEPT !.itemEnumNotIn =
                 IF Len(constraints.notIn) > 0 THEN constraints.notIn ELSE @])

\* Mutant of processNumericItemConstraints: the bounds of the items are
\* pushed to the methods of the field.
processNumericItemConstraintsOnField(value, chain) ==
    IF ~IsDefined(value) THEN Thrown(chain)
    ELSE LET constraints == ValueOf(value)
         IN  Returned([chain EXCEPT !.methods =
                 @ \o NumericBoundMethods(constraints.greaterThan, constraints.lessThan)])

processNumericItemConstraints(value, chain) ==
    IF ~IsDefined(value) THEN Thrown(chain)
    ELSE LET constraints == ValueOf(value)
         IN  Returned([chain EXCEPT !.itemMethods =
                 @ \o NumericBoundMethods(constraints.greaterThan, constraints.lessThan)])

processInt64ItemConstraints(value, chain) ==
    IF ~IsDefined(value) THEN Thrown(chain)
    ELSE LET constraints == ValueOf(value)
         IN  Returned([chain EXCEPT !.itemMethods =
                 @ \o Int64BoundMethods(constraints.greaterThan, constraints.lessThan)])

\* The cases of the two switches on type.case that share a processor.
Numeric32Cases == {"int32", "uint32", "sint32", "fixed32", "sfixed32"}
Numeric64Cases == {"int64", "uint64", "sint64", "fixed64", "sfixed64"}
FloatCases == {"float", "double"}

processRepeatedConstraints(value, chain) ==
    IF ~IsDefined(value) THEN Thrown(chain)
    ELSE LET constraints == ValueOf(value)
             m1 == IF ExplicitBound(constraints.minItems)
                   THEN Append(chain.methods,
                               ".min(" \o NumberString(ValueOf(constraints.minItems)) \o ")")
                   ELSE chain.methods
             m2 == IF ExplicitBound(constraints.maxItems)
                   THEN Append(m1, ".max(" \o NumberString(ValueOf(constraints.maxItems)) \o ")")
                   ELSE m1
             m3 == PushIf(m2, constraints.unique,
                          ".refine((arr) => new Set(arr).size === arr.length, { message: \"Items must be unique\" })")
             own == [chain EXCEPT !.methods = m3]
             itemType == constraints.items
         IN  CASE itemType.case = "string" -> processStringItemConstraints(itemType.value, own)
               [] itemType.case = "enum" -> processEnumItemConstraints(itemType.value, own)
               [] itemType.case \in Numeric32Cases ->
                      processNumericItemConstraints(itemType.value, own)
               [] itemType.case \in Numeric64Cases ->
                      processInt64ItemConstraints(itemType.value, own)
               [] OTHER -> Returned(own)

processMapConstraints(value, chain) ==
    IF ~IsDefined(value) THEN Thrown(chain)
    ELSE LET constraints == ValueOf(value)
             m1 == IF ExplicitBound(constraints.minPairs)
                   THEN Append(chain.methods,
                               ".refine((m) => Object.keys(m).length >= "
                               \o NumberString(ValueOf(constraints.minPairs))
                               \o ", { message: \"Map must have at least "
                               \o IntToString(ValueOf(constraints.minPairs)) \o " entries\" })")
                   ELSE chain.methods
             m2 == IF ExplicitBound(constraints.maxPairs)
                   THEN Append(m1,
                               ".refine((m) => Object.keys(m).length <= "
                               \o NumberString(ValueOf(constraints.maxPairs))
                               \o ", { message: \"Map must have at most "
                               \o IntToString(ValueOf(constraints.maxPairs)) \o " entries\" })")
                   ELSE m1
         IN  Returned([chain EXCEPT !.methods = m2])

\* Lines 310-351: the switch on type.case.
ProcessTypeConstraints(type, chain) ==
    CASE type.case = "string" -> processStringConstraints(type.value, chain)
      [] type.case = "bytes" -> processBytesConstraints(type.value, chain)
      [] type.case \in Numeric32Cases -> processNumericConstraints(type.value, chain)
      [] type.case \in Numeric64Cases -> processInt64Constraints(type.value, chain)
      [] type.case \in FloatCases -> processFloatConstraints(type.value, chain)
      [] type.case = "bool" -> processBoolConstraints(type.value, chain)
      [] type.case = "enum" -> processEnumConstraints(type.value, chain)
      [] type.case = "repeated" -> processRepeatedConstraints(type.value, chain)
      [] type.case = "map" -> processMapConstraints(type.value, chain)
      [] OTHER -> Returned(chain)

\* The body of the try block of getValidationChain: the chain as the block
\* leaves it, and whether it left it by an exception.
ReadConstraints(field) ==
    IF ~IsDefined(field.options) THEN Returned(EmptyChain)
    ELSE LET options == ValueOf(field.options)
         IN  CASE options.extension = "absent" -> Returned(EmptyChain)
               [] options.extension = "undecodable" -> Thrown(EmptyChain)
               [] OTHER ->
                    ProcessTypeConstraints(
                        options.constraints.type,
                        [EmptyChain EXCEPT
                            !.required = IF options.constraints.required THEN TRUE ELSE @])

\* getValidationChain(field): the catch block logs and execution goes on to
\* the return statement after it, which returns the chain object the try
\* block worked on.
getValidationChain(field) == ReadConstraints(field).chain

\* The console.error calls of one getValidationChain(field) call.
ValidationWarnings(field) ==
    IF ReadConstraints(field).threw
    THEN <<"Warning: Could not read validation constraints for field "
           \o Join(field.name) \o ":">>
    ELSE <<>>

isFieldRequired(field) ==
    IF ~IsDefined(field.options) THEN FALSE
    ELSE LET options == ValueOf(field.options)
         IN  CASE options.extension = "absent" -> FALSE
               [] options.extension = "undecodable" -> FALSE
               [] OTHER -> options.constraints.required

(***************************************************************************)
(* The type mapper (src/unnamed/part_000) and the naming helpers           *)
(* (src/tools/zod/src/utils.ts), as far as generateFieldSchema uses them:  *)
(* the zodType member of the ZodTypeInfo.  A Zod expression is the         *)
(* sequence of the pieces it is concatenated from, its text their Join; a  *)
(* list field's expression is <<"z.array(", item type, ")">>.              *)
(***************************************************************************)
LowerCaseLetters ==
    <<"a", "b", "c", "d", "e", "f", "g", "h", "i", "j", "k", "l", "m",
      "n", "o", "p", "q", "r", "s", "t", "u", "v", "w", "x", "y", "z">>
UpperCaseLetters ==
    <<"A", "B", "C", "D", "E", "F", "G", "H", "I", "J", "K", "L", "M",
      "N", "O", "P", "Q", "R", "S", "T", "U", "V", "W", "X", "Y", "Z">>

\* letter.toUpperCase() of a letter matched by [a-z].
ToUpperCase(letter) ==
    UpperCaseLetters[CHOOSE i \in 1..Len(LowerCaseLetters) : LowerCaseLetters[i] = letter]

\* name.replace(/_([a-z])/g, (_, letter) => letter.toUpperCase()), on the
\* characters of name.
RECURSIVE CamelCaseChars(_)
CamelCaseChars(chars) ==
    IF chars = <<>> THEN <<>>
    ELSE IF /\ Head(chars) = "_"
            /\ Len(chars) > 1
            /\ Includes(LowerCaseLetters, chars[2])
         THEN <<ToUpperCase(chars[2])>> \o CamelCaseChars(SubSeq(chars, 3, Len(chars)))
         ELSE <<Head(chars)>> \o CamelCaseChars(Tail(chars))

toCamelCase(name) == Join(CamelCaseChars(name))

toSchemaName(messageName) == messageName \o "Schema"

\* Mutant of mapScalarToZod: the unsigned 64-bit kinds are mapped like the
\* unsigned 32-bit kinds.
mapScalarToZodUnsigned64AsNumber(scalar) ==
    CASE scalar = "STRING" -> "z.string()"
      [] scalar = "BOOL" -> "z.boolean()"
      [] scalar \in {"INT32", "SINT32", "SFIXED32"} -> "z.number().int()"
      [] scalar \in {"UINT32", "FIXED32", "UINT64", "FIXED64"} -> "z.number().int().nonnegative()"
      [] scalar \in {"INT64", "SINT64", "SFIXED64"} -> "z.string()"
      [] scalar \in {"FLOAT", "DOUBLE"} -> "z.number()"
      [] scalar = "BYTES" -> "z.instanceof(Uint8Array)"
      [] OTHER -> "z.unknown()"

mapScalarToZod(scalar) ==
    CASE scalar = "STRING" -> "z.string()"
      [] scalar = "BOOL" -> "z.boolean()"
      [] scalar \in {"INT32", "SINT32", "SFIXED32"} -> "z.number().int()"
      [] scalar \in {"UINT32", "FIXED32"} -> "z.number().int().nonnegative()"
      [] scalar \in {"INT64", "SINT64", "SFIXED64"} -> "z.string()"
      [] scalar \in {"UINT64", "FIXED64"} -> "z.string()"
      [] scalar \in {"FLOAT", "DOUBLE"} -> "z.number()"
      [] scalar = "BYTES" -> "z.instanceof(Uint8Array)"
      [] OTHER -> "z.unknown()"

mapEnumToZod(enumDesc, context) == "z.enum(" \o enumDesc.name \o ")"

mapMessageToZod(msgDesc, context) ==
    LET typeName == msgDesc.typeName
    IN  CASE typeName = "google.protobuf.Timestamp" -> "z.coerce.date()"
          [] typeName = "google.protobuf.Duration" -> "z.string()"
          [] typeName = "google.protobuf.Any" -> "z.unknown()"
          [] typeName = "google.protobuf.Struct" -> "z.record(z.string(), z.any())"
          [] typeName = "google.protobuf.Value" -> "z.any()"
          [] typeName = "google.protobuf.ListValue" -> "z.array(z.any())"
          [] typeName = "google.protobuf.Empty" -> "z.object({})"
          [] typeName = "google.protobuf.StringValue" -> "z.string()"
          [] typeName \in {"google.protobuf.Int32Value", "google.protobuf.Int64Value"} ->
                 "z.number().int()"
          [] typeName \in {"google.protobuf.UInt32Value", "google.protobuf.UInt64Value"} ->
                 "z.number().int().nonnegative()"
          [] typeName \in {"google.protobuf.FloatValue", "google.protobuf.DoubleValue"} ->
                 "z.number()"
          [] typeName = "google.protobuf.BoolValue" -> "z.boolean()"
          [] typeName = "google.protobuf.BytesValue" -> "z.instanceof(Uint8Array)"
          [] OTHER -> toSchemaName(msgDesc.name)

mapListItemToZod(field, context) ==
    CASE field.listKind = "scalar" -> mapScalarToZod(field.scalar)
      [] field.listKind = "enum" -> mapEnumToZod(field.enum, context)
      [] field.listKind = "message" -> mapMessageToZod(field.message, context)
      [] OTHER -> "z.unknown()"

mapMapFieldToZod(field, context) ==
    LET keyType == mapScalarToZod(field.mapKey)
        valueType ==
            CASE field.mapKind = "scalar" -> mapScalarToZod(field.scalar)
              [] field.mapKind = "enum" -> mapEnumToZod(field.enum, context)
              [] field.mapKind = "message" -> mapMessageToZod(field.message, context)
              [] OTHER -> "z.unknown()"
    IN  "z.record(" \o keyType \o ", " \o valueType \o ")"

mapSingleFieldToZod(field, context) ==
    CASE field.fieldKind = "scalar" -> mapScalarToZod(field.scalar)
      [] field.fieldKind = "enum" -> mapEnumToZod(field.enum, context)
      [] field.fieldKind = "message" -> mapMessageToZod(field.message, context)
      [] OTHER -> "z.unknown()"

mapFieldToZod(field, context) ==
    CASE field.fieldKind = "map" -> <<mapMapFieldToZod(field, context)>>
      [] field.fieldKind = "list" -> <<"z.array(", mapListItemToZod(field, context), ")">>
      [] OTHER -> <<mapSingleFieldToZod(field, context)>>

\* Mutant of isFieldOptional: list and map fields are not optional.
isFieldOptionalWithoutCollections(field) ==
    \/ field.fieldKind = "scalar" \/ field.fieldKind = "enum"
    \/ field.proto3Optional
    \/ field.fieldKind = "message"

isFieldOptional(field) ==
    \/ field.fieldKind = "scalar" \/ field.fieldKind = "enum"
    \/ field.proto3Optional
    \/ field.fieldKind = "message"
    \/ field.fieldKind = "list" \/ field.fieldKind = "map"

(***************************************************************************)
(* generateFieldSchema(f, field, context, recursiveTypes).                 *)
(***************************************************************************)
\* string.replace(/<from>/g, to) on the characters of the string.
RECURSIVE ReplaceAll(_, _, _)
ReplaceAll(chars, from, to) ==
    IF chars = <<>> THEN <<>>
    ELSE (IF Head(chars) = from THEN to ELSE <<Head(chars)>>)
         \o ReplaceAll(Tail(chars), from, to)

\* pattern.replace(/\\/g, "\\\\").replace(/"/g, '\\"')
escapePattern(pattern) ==
    Join(ReplaceAll(ReplaceAll(pattern, "\\", <<"\\", "\\">>), "\"", <<"\\", "\"">>))

\* Lines 349 and 375: the check that also accepts the empty string.
PermissivePatternMethod(pattern) ==
    ".refine((v) => v === \"\" || new RegExp(\"" \o escapePattern(pattern)
    \o "\").test(v), { message: \"Must match pattern: " \o escapePattern(pattern) \o "\" })"

\* Line 373.
StrictPatternMethod(pattern) ==
    ".regex(new RegExp(\"" \o escapePattern(pattern) \o "\"))"

\* Mutant of PatternMethods: the pattern is always rendered as the strict match.
PatternMethodsAlwaysStrict(validation, fieldIsRequired) ==
    IF IsDefined(validation.stringPattern)
    THEN <<StrictPatternMethod(ValueOf(validation.stringPattern))>>
    ELSE <<>>

\* Lines 370-377: what the pattern slot adds to the expression.
PatternMethods(validation, fieldIsRequired) ==
    IF IsDefined(validation.stringPattern)
    THEN IF fieldIsRequired
         THEN <<StrictPatternMethod(ValueOf(validation.stringPattern))>>
         ELSE <<PermissivePatternMethod(ValueOf(validation.stringPattern))>>
    ELSE <<>>

\* Mutant of OptionalMethods: the required flag is not consulted.
OptionalMethodsIgnoringRequired(fieldIsOptional, fieldIsRequired) ==
    IF fieldIsOptional THEN <<".optional()">> ELSE <<>>

\* Lines 385-387.
OptionalMethods(fieldIsOptional, fieldIsRequired) ==
    IF fieldIsOptional /\ ~fieldIsRequired THEN <<".optional()">> ELSE <<>>

\* Lines 320-331: the expression after the test for a reference to a
\* recursive type.
LazyReference(field, zodType, recursiveNames) ==
    IF /\ \/ field.fieldKind = "message"
          \/ field.fieldKind = "list" /\ field.listKind = "message"
       /\ field.message.name \in recursiveNames
    THEN IF field.fieldKind = "list"
         THEN <<"z.array(", "z.lazy(() => " \o toSchemaName(field.message.name) \o ")", ")">>
         ELSE <<"z.lazy(() => " \o toSchemaName(field.message.name) \o ")">>
    ELSE zodType

\* zodExpression.match(/^z\.array\((.+)\)$/): the expression of a list field
\* is "z.array(" + item type + ")" with a non-empty item type on one line,
\* and the greedy group takes all of it.
MatchesArray(zodExpression) ==
    /\ Len(zodExpression) = 3
    /\ zodExpression[1] = "z.array("
    /\ zodExpression[3] = ")"

\* Lines 334-360: the expression after the item-level constraints.
ItemConstraints(field, zodExpression, validation) ==
    IF /\ field.fieldKind = "list"
       /\ \/ Len(validation.itemMethods) > 0
          \/ Len(validation.itemEnumNotIn) > 0
          \/ IsDefined(validation.itemStringPattern)
       /\ MatchesArray(zodExpression)
    THEN LET values == JoinWith(IntStrings(validation.itemEnumNotIn), ", ")
             itemType ==
                 zodExpression[2]
                 \o Join(validation.itemMethods)
                 \o (IF IsDefined(validation.itemStringPattern)
                     THEN PermissivePatternMethod(ValueOf(validation.itemStringPattern))
                     ELSE "")
                 \o (IF Len(validation.itemEnumNotIn) > 0
                     THEN ".refine((e) => ![" \o values
                          \o "].includes(e), { message: \"Must not be one of: "
                          \o values \o "\" })"
                     ELSE "")
         IN  <<"z.array(", itemType, ")">>
    ELSE zodExpression

\* Mutant of DefinedOnlyMethods: the test of the field kind asks for a list.
DefinedOnlyMethodsOfLists(validation, field) ==
    IF validation.enumDefinedOnly /\ field.fieldKind = "list"
    THEN <<".refine((v) => v !== 0, \"Value is required\")">>
    ELSE <<>>

\* Lines 380-382: the refinement that rejects the value 0 of an enum field.
DefinedOnlyMethods(validation, field) ==
    IF validation.enumDefinedOnly /\ field.fieldKind = "enum"
    THEN <<".refine((v) => v !== 0, \"Value is required\")">>
    ELSE <<>>

\* The call: the chain it extracted, the expression it built, piece by
\* piece, and the lines it printed.
generateFieldSchema(field, context, recursiveNames) ==
    LET fieldName == toCamelCase(field.name)
        typeInfo == mapFieldToZod(field, context)
        validation == getValidationChain(field)
        fieldIsOptional == isFieldOptional(field)
        fieldIsRequired == isFieldRequired(field) \/ validation.required
        zodExpression ==
            ItemConstraints(field, LazyReference(field, typeInfo, recursiveNames), validation)
            \o validation.methods
            \o PatternMethods(validation, fieldIsRequired)
            \o DefinedOnlyMethods(validation, field)
            \o OptionalMethods(fieldIsOptional, fieldIsRequired)
    IN  [validation |-> validation,
         zodExpression |-> zodExpression,
         lines |-> (IF field.deprecated THEN <<"  /** @deprecated */">> ELSE <<>>)
                   \o <<"  " \o fieldName \o ": " \o Join(zodExpression) \o ",">>]

(***************************************************************************)
(* The fields the two calls are checked on: field descriptors of the kinds *)
(* the generator handles, each with annotation payloads of its own kind    *)
(* (and some of another kind, which the code does not rule out).           *)
(***************************************************************************)
NoMessage == [name |-> "", typeName |-> "", file |-> ""]
NoEnum == [name |-> "", file |-> ""]

NodeMessage == [name |-> "Node", typeName |-> "pkg.v1.Node", file |-> CurrentProtoPath]
OwnerMessage == [name |-> "Owner", typeName |-> "pkg.v1.Owner", file |-> OtherProtoPath]
TimestampMessage ==
    [name |-> "Timestamp", typeName |-> "google.protobuf.Timestamp",
     file |-> "google/protobuf/timestamp"]
StatusEnum == [name |-> "Status", file |-> CurrentProtoPath]

DescField(name, fieldKind, elementKind, scalar, message, enum) ==
    [name |-> name, fieldKind |-> fieldKind,
     listKind |-> IF fieldKind = "list" THEN elementKind ELSE "",
     mapKind |-> IF fieldKind = "map" THEN elementKind ELSE "",
     mapKey |-> IF fieldKind = "map" THEN "STRING" ELSE "",
     scalar |-> scalar, message |-> message, enum |-> enum,
     proto3Optional |-> FALSE, deprecated |-> FALSE, options |-> NoOptions]

UserNameField ==
    DescField(<<"u", "s", "e", "r", "_", "n", "a", "m", "e">>, "scalar", "", "STRING",
              NoMessage, NoEnum)
AgeField == DescField(<<"a", "g", "e">>, "scalar", "", "INT32", NoMessage, NoEnum)
CountField ==
    DescField(<<"i", "t", "e", "m", "_", "c", "o", "u", "n", "t">>, "scalar", "", "UINT32",
              NoMessage, NoEnum)
TotalField == DescField(<<"t", "o", "t", "a", "l">>, "scalar", "", "INT64", NoMessage, NoEnum)
RatioField == DescField(<<"r", "a", "t", "i", "o">>, "scalar", "", "DOUBLE", NoMessage, NoEnum)
ActiveField ==
    DescField(<<"i", "s", "_", "a", "c", "t", "i", "v", "e">>, "scalar", "", "BOOL",
              NoMessage, NoEnum)
PayloadField ==
    DescField(<<"p", "a", "y", "l", "o", "a", "d">>, "scalar", "", "BYTES", NoMessage, NoEnum)
StatusField == DescField(<<"s", "t", "a", "t", "u", "s">>, "enum", "", "", NoMessage, StatusEnum)
ParentField == DescField(<<"p", "a", "r", "e", "n", "t">>, "message", "", "", NodeMessage, NoEnum)
OwnerField == DescField(<<"o", "w", "n", "e", "r">>, "message", "", "", OwnerMessage, NoEnum)
CreatedAtField ==
    [DescField(<<"c", "r", "e", "a", "t", "e", "d", "_", "a", "t">>, "message", "", "",
               TimestampMessage, NoEnum) EXCEPT !.deprecated = TRUE]
TagsField == DescField(<<"t", "a", "g", "s">>, "list", "scalar", "STRING", NoMessage, NoEnum)
StatesField == DescField(<<"s", "t", "a", "t", "e", "s">>, "list", "enum", "", NoMessage, StatusEnum)
ChildrenField ==
    DescField(<<"c", "h", "i", "l", "d", "r", "e", "n">>, "list", "message", "", NodeMessage, NoEnum)
ScoresField == DescField(<<"s", "c", "o", "r", "e", "s">>, "list", "scalar", "INT32", NoMessage, NoEnum)
IdsField == DescField(<<"i", "d", "s">>, "list", "scalar", "UINT64", NoMessage, NoEnum)
LabelsField == DescField(<<"l", "a", "b", "e", "l", "s">>, "map", "scalar", "STRING", NoMessage, NoEnum)

FieldShapes ==
    {UserNameField, AgeField, CountField, TotalField, RatioField, ActiveField,
     PayloadField, StatusField, ParentField, OwnerField, CreatedAtField, TagsField,
     StatesField, ChildrenField, ScoresField, IdsField, LabelsField}

\* Values of the rule members.
MinLengths == {Some(0), Some(3)}
MaxLengths == {None, Some(0), Some(10)}
ExactLengths == {Some(0), Some(5)}
LowerCasePattern == <<"^", "[", "a", "-", "z", "]", "+", "$">>
QuotedPattern == <<"^", "\"", "\\", "d", "+", "\"", "$">>
Patterns == {<<>>, LowerCasePattern, QuotedPattern}
Affixes ==
    {[prefix |-> "", suffix |-> "", contains |-> ""],
     [prefix |-> "id_", suffix |-> "", contains |-> ""],
     [prefix |-> "", suffix |-> "_v1", contains |-> "-"],
     [prefix |-> "id_", suffix |-> "_v1", contains |-> "-"]}
WellKnownFormats ==
    {NoWellKnown, [case |-> "email", value |-> FALSE], [case |-> "address", value |-> TRUE]}
    \cup {[case |-> c, value |-> TRUE] :
            c \in {"email", "hostname", "ip", "ipv4", "ipv6", "uri", "uuid"}}
ItemFormats ==
    {NoWellKnown, [case |-> "email", value |-> FALSE],
     [case |-> "uuid", value |-> TRUE], [case |-> "hostname", value |-> TRUE]}

StringRuleValues ==
    {StringRules(minLen, maxLen, len, pattern, a.prefix, a.suffix, a.contains, wellKnown) :
        minLen \in MinLengths, maxLen \in MaxLengths, len \in ExactLengths,
        pattern \in Patterns, a \in Affixes, wellKnown \in WellKnownFormats}

ItemAffixes == {[prefix |-> "", suffix |-> ""], [prefix |-> "id_", suffix |-> "_v1"]}

StringItemRuleValues ==
    {StringRules(minLen, maxLen, Some(0), pattern, a.prefix, a.suffix, "", wellKnown) :
        minLen \in MinLengths, maxLen \in MaxLengths, pattern \in Patterns,
        a \in ItemAffixes, wellKnown \in ItemFormats}

LowerBounds == {NoBound, [case |-> "gt", value |-> 0], [case |-> "gte", value |-> 1]}
UpperBounds ==
    {NoBound, [case |-> "lt", value |-> 100], [case |-> "lte", value |-> -5],
     [case |-> "lte", value |-> 0]}

NumericRuleValues ==
    {NumericRules(greaterThan, lessThan, const, in, notIn) :
        greaterThan \in LowerBounds, lessThan \in UpperBounds,
        const \in {None, Some(0), Some(7)},
        in \in {<<>>, <<1, 2, 3>>}, notIn \in {<<>>, <<-1>>}}

NumericItemRuleValues ==
    {NumericRules(greaterThan, lessThan, None, <<>>, <<>>) :
        greaterThan \in LowerBounds, lessThan \in UpperBounds}

FloatRuleValues ==
    {FloatRules(greaterThan, lessThan, finite) :
        greaterThan \in LowerBounds, lessThan \in UpperBounds, finite \in BOOLEAN}

BoolRuleValues == {BoolRules(const) : const \in {None, Some(FALSE), Some(TRUE)}}

EnumRuleValues ==
    {EnumRules(definedOnly, in, notIn) :
        definedOnly \in BOOLEAN, in \in {<<>>, <<1, 2>>}, notIn \in {<<>>, <<0>>}}

EnumItemRuleValues ==
    {EnumRules(FALSE, <<>>, notIn) : notIn \in {<<>>, <<0>>, <<0, 3>>}}

BytesRuleValues ==
    {BytesRules(minLen, maxLen) : minLen \in MinLengths, maxLen \in MaxLengths}

MapRuleValues ==
    {MapRules(minPairs, maxPairs) : minPairs \in {Some(0), Some(1)}, maxPairs \in MaxLengths}

\* The items member of the repeated rules that fit a list field, among them
\* one whose type names a case without a value.
ItemRulesFor(field) ==
    {NoItems, [case |-> "string", value |-> None]}
    \cup (CASE field = TagsField ->
                 {[case |-> "string", value |-> Some(r)] : r \in StringItemRuleValues}
            [] field = StatesField ->
                 {[case |-> "enum", value |-> Some(r)] : r \in EnumItemRuleValues}
            [] field = ScoresField ->
                 {[case |-> "int32", value |-> Some(r)] : r \in NumericItemRuleValues}
            [] field = IdsField ->
                 {[case |-> "uint64", value |-> Some(r)] : r \in NumericItemRuleValues}
            [] OTHER -> {})

RepeatedRuleValues(field) ==
    {RepeatedRules(minItems, maxItems, unique, items) :
        minItems \in {Some(0), Some(1)}, maxItems \in MaxLengths, unique \in BOOLEAN,
        items \in ItemRulesFor(field)}

\* The type oneof of the payloads of a field: no case, a case without a
\* value, and the rules of the field's kind.
TypesFor(field) ==
    {[case |-> "none", value |-> None]}
    \cup (CASE field \in {UserNameField, TagsField} ->
                 {[case |-> "string", value |-> None]}
                 \cup {[case |-> "string", value |-> Some(r)] : r \in StringRuleValues}
            [] field = AgeField ->
                 {[case |-> "int32", value |-> None]}
                 \cup {[case |-> "int32", value |-> Some(r)] : r \in NumericRuleValues}
            [] field = CountField ->
                 {[case |-> "uint32", value |-> Some(r)] : r \in NumericRuleValues}
            [] field = TotalField ->
                 {[case |-> "int64", value |-> None]}
                 \cup {[case |-> "int64", value |-> Some(r)] : r \in NumericRuleValues}
            [] field = RatioField ->
                 {[case |-> "double", value |-> None]}
                 \cup {[case |-> "double", value |-> Some(r)] : r \in FloatRuleValues}
            [] field = ActiveField ->
                 {[case |-> "bool", value |-> None]}
                 \cup {[case |-> "bool", value |-> Some(r)] : r \in BoolRuleValues}
            [] field = PayloadField ->
                 {[case |-> "bytes", value |-> None]}
                 \cup {[case |-> "bytes", value |-> Some(r)] : r \in BytesRuleValues}
            [] field \in {StatusField, StatesField} ->
                 {[case |-> "enum", value |-> None]}
                 \cup {[case |-> "enum", value |-> Some(r)] : r \in EnumRuleValues}
            [] field = LabelsField ->
                 {[case |-> "map", value |-> None]}
                 \cup {[case |-> "map", value |-> Some(r)] : r \in MapRuleValues}
            [] OTHER -> {[case |-> "timestamp", value |-> None]})
    \cup (IF field.fieldKind = "list"
          THEN {[case |-> "repeated", value |-> None]}
               \cup {[case |-> "repeated", value |-> Some(r)] : r \in RepeatedRuleValues(field)}
          ELSE {})

OptionsFor(field) ==
    {NoOptions, OptionsWithoutExtension, UndecodableOptions}
    \cup {OptionsWith([required |-> required, type |-> type]) :
            required \in BOOLEAN, type \in TypesFor(field)}

\* The recursiveTypes argument: the recursive messages of the file.
RecursiveSetsFor(field) ==
    IF field.message = NoMessage THEN {{}} ELSE {{}, {"Node"}}

(***************************************************************************)
(* The two calls on one field.  getValidationChain is exported and may be  *)
(* called on its own; generateFieldSchema calls it itself.                 *)
(***************************************************************************)
ResolverIdle ==
    /\ messages = <<>>
    /\ protoPath = ""
    /\ pc = "idle"
    /\ dependencies = <<>>
    /\ recursiveTypes = {}
    /\ cycleIndex = 0
    /\ stack = <<>>
    /\ visiting = {}
    /\ inDegree = <<>>
    /\ queue = <<>>
    /\ visited = {}
    /\ result = <<>>

ChainInit ==
    /\ \E shape \in FieldShapes :
         \E options \in OptionsFor(shape) :
           \E recursiveNames \in RecursiveSetsFor(shape) :
             /\ descField = [shape EXCEPT !.options = options]
             /\ recursiveArg = recursiveNames
    /\ step = "ready"
    /\ extracted = EmptyChain
    /\ warnings = <<>>
    /\ expression = <<>>
    /\ printed = <<>>
    /\ ResolverIdle
    /\ MapperIdle
    /\ GeneratorIdle

\* A call of getValidationChain(field).
GetValidationChainCall ==
    /\ step = "ready"
    /\ extracted' = getValidationChain(descField)
    /\ warnings' = warnings \o ValidationWarnings(descField)
    /\ step' = "extracted"
    /\ UNCHANGED <<descField, recursiveArg, expression, printed, resolverVars, mapperVars, generatorVars>>

\* A call of generateFieldSchema(f, field, context, recursiveTypes).
GenerateFieldSchemaCall ==
    /\ step \in {"ready", "extracted"}
    /\ LET generated == generateFieldSchema(descField,
                                            [currentProtoPath |-> CurrentProtoPath],
                                            recursiveArg)
       IN  /\ extracted' = generated.validation
           /\ expression' = generated.zodExpression
           /\ printed' = printed \o generated.lines
    /\ warnings' = warnings \o ValidationWarnings(descField)
    /\ step' = "printed"
    /\ UNCHANGED <<descField, recursiveArg, resolverVars, mapperVars, generatorVars>>

ChainNext ==
    \/ GetValidationChainCall
    \/ GenerateFieldSchemaCall

ChainSpec == ChainInit /\ [][ChainNext]_vars

(***************************************************************************)
(* The notions the statements about the extractor are written in.          *)
(***************************************************************************)
\* getValidationChain has returned, on its own or inside generateFieldSchema.
ChainReturned == step \in {"extracted", "printed"}

\* The field carries a decodable annotation payload / one whose type oneof
\* holds rules.
HasPayload ==
    /\ IsDefined(descField.options)
    /\ ValueOf(descField.options).extension = "present"

Payload == ValueOf(descField.options).constraints

HasRules == HasPayload /\ IsDefined(Payload.type.value)

Rules == ValueOf(Payload.type.value)

\* A bound that is not set reads as zero.
BoundValue(bound) == IF IsDefined(bound) THEN ValueOf(bound) ELSE 0

\* The suffixes that bound a length or an item count from above, the byte
\* length, and the number of pairs.
MaxSuffix(v) == ".max(" \o NatToString(v) \o ")"
BytesMaxSuffix(v) ==
    ".refine((b) => b.length <= " \o NatToString(v)
    \o ", { message: \"Bytes must be at most " \o NatToString(v) \o " bytes\" })"
MapMaxSuffix(v) ==
    ".refine((m) => Object.keys(m).length <= " \o NatToString(v)
    \o ", { message: \"Map must have at most " \o NatToString(v) \o " entries\" })"
MaxSuffixes == {MaxSuffix(v) : v \in 0..10}
BytesMaxSuffixes == {BytesMaxSuffix(v) : v \in 0..10}
MapMaxSuffixes == {MapMaxSuffix(v) : v \in 0..10}

CountIn(list, suffixes) == Cardinality({i \in 1..Len(list) : list[i] \in suffixes})

\* list holds no suffix of the family for a zero bound, and exactly one, the
\* expected one, for a non-zero bound.
BoundSuffixOk(list, suffixes, bound, expected) ==
    IF BoundValue(bound) = 0
    THEN CountIn(list, suffixes) = 0
    ELSE CountIn(list, suffixes) = 1 /\ Includes(list, expected)

\* C7: whenever getValidationChain logged an error raised while it read or
\* processed the field's annotation payload, the chain it returned is the
\* empty chain: no methods, no item methods, no item enum values, no
\* patterns, enumDefinedOnly false and required false.
C7_ErrorYieldsEmptyChain ==
    (ChainReturned /\ warnings # <<>>) => extracted = EmptyChain

\* C8: a zero-valued (or unset) max length of string, bytes or string-item
\* rules, max item count of repeated rules and max pair count of map rules
\* leaves no suffix for that bound in methods or itemMethods; a non-zero
\* value leaves exactly one, with that value.
C8_ZeroMaxEmitsNoSuffix ==
    (ChainReturned /\ HasRules) =>
        CASE Payload.type.case = "string" ->
                 /\ BoundSuffixOk(extracted.methods, MaxSuffixes, Rules.maxLen,
                                  MaxSuffix(BoundValue(Rules.maxLen)))
                 /\ CountIn(extracted.itemMethods, MaxSuffixes) = 0
          [] Payload.type.case = "bytes" ->
                 /\ BoundSuffixOk(extracted.methods, BytesMaxSuffixes, Rules.maxLen,
                                  BytesMaxSuffix(BoundValue(Rules.maxLen)))
                 /\ CountIn(extracted.itemMethods, BytesMaxSuffixes) = 0
          [] Payload.type.case = "repeated" ->
                 /\ BoundSuffixOk(extracted.methods, MaxSuffixes, Rules.maxItems,
                                  MaxSuffix(BoundValue(Rules.maxItems)))
                 /\ IF Rules.items.case = "string" /\ IsDefined(Rules.items.value)
                    THEN BoundSuffixOk(extracted.itemMethods, MaxSuffixes,
                                       ValueOf(Rules.items.value).maxLen,
                                       MaxSuffix(BoundValue(ValueOf(Rules.items.value).maxLen)))
                    ELSE CountIn(extracted.itemMethods, MaxSuffixes) = 0
          [] Payload.type.case = "map" ->
                 /\ BoundSuffixOk(extracted.methods, MapMaxSuffixes, Rules.maxPairs,
                                  MapMaxSuffix(BoundValue(Rules.maxPairs)))
                 /\ CountIn(extracted.itemMethods, MapMaxSuffixes) = 0
          [] OTHER -> TRUE

\* Repeated rules with a zero max item count and a min item count, over
\* string items with a max length of 10: the chain holds the min count, no
\* max count, and the one max length of the items.
C8_Witness ==
    /\ step = "extracted"
    /\ HasRules
    /\ Payload.type.case = "repeated"
    /\ Rules.maxItems = Some(0)
    /\ Rules.items.case = "string"
    /\ IsDefined(Rules.items.value)
    /\ ValueOf(Rules.items.value).maxLen = Some(10)
    /\ extracted.methods = <<".min(1)">>
    /\ extracted.itemMethods = <<".max(10)">>

\* The payload of the scenario: required, and string rules with min length 3
\* and max length 10 and nothing else.
RequiredBoundedString ==
    OptionsWith(Constraints(TRUE, "string",
        Some(StringRules(Some(3), Some(10), Some(0), <<>>, "", "", "", NoWellKnown))))

\* C9: for a payload with required set and string rules of min length 3 and
\* max length 10, getValidationChain returns methods <<".min(3)", ".max(10)">>
\* with required true and no pattern (and nothing in the item slots), and the
\* field is printed without ".optional()": the type followed by the two
\* methods.
C9_RequiredAndRulesBothHonoured ==
    descField.options = RequiredBoundedString =>
        /\ ChainReturned =>
               extracted = [EmptyChain EXCEPT !.methods = <<".min(3)", ".max(10)">>,
                                              !.required = TRUE]
        /\ step = "printed" =>
               /\ ~Includes(expression, ".optional()")
               /\ expression = mapFieldToZod(descField, [currentProtoPath |-> CurrentProtoPath])
                               \o <<".min(3)", ".max(10)">>
               /\ descField.name = UserNameField.name =>
                      printed = <<"  userName: z.string().min(3).max(10),">>

C9_Witness ==
    /\ step = "printed"
    /\ descField.options = RequiredBoundedString
    /\ descField.name = UserNameField.name
    /\ printed = <<"  userName: z.string().min(3).max(10),">>

\* The payload holds string rules with a pattern.
HasPattern ==
    /\ HasRules
    /\ Payload.type.case = "string"
    /\ Rules.pattern # <<>>

\* C10: the pattern of string rules is kept in the pattern slot and never in
\* methods; the printed expression ends with the methods of the chain, then
\* the pattern, rendered once: as the strict .regex(...) when the field is
\* required, and otherwise as the .refine(...) that accepts the empty string
\* or a match, followed by ".optional()".
C10_PatternRenderedAfterMethods ==
    (ChainReturned /\ HasPattern) =>
        LET strict == StrictPatternMethod(Rules.pattern)
            permissive == PermissivePatternMethod(Rules.pattern)
            n == Len(expression)
            k == Len(extracted.methods)
        IN  /\ extracted.stringPattern = Some(Rules.pattern)
            /\ \A i \in 1..k :
                   extracted.methods[i] \notin {strict, permissive, Join(Rules.pattern)}
            /\ step = "printed" =>
                   /\ Count(expression, strict) + Count(expression, permissive) = 1
                   /\ IF Payload.required
                      THEN /\ n >= k + 2
                           /\ expression[n] = strict
                           /\ SubSeq(expression, n - k, n - 1) = extracted.methods
                      ELSE /\ n >= k + 3
                           /\ expression[n] = ".optional()"
                           /\ expression[n - 1] = permissive
                           /\ SubSeq(expression, n - 1 - k, n - 2) = extracted.methods

\* The scenario: a string field that is not required, with the pattern
\* ^[a-z]+$ and a min length.
C10_Witness ==
    /\ step = "printed"
    /\ HasPattern
    /\ Rules.pattern = LowerCasePattern
    /\ ~Payload.required
    /\ extracted.methods = <<".min(3)">>
    /\ printed = <<"  userName: z.string().min(3).refine((v) => v === \"\" || new RegExp(\"^[a-z]+$\").test(v), { message: \"Must match pattern: ^[a-z]+$\" }).optional(),">>

\* The field carries a required marker: isFieldRequired or the chain's flag.
RequiredMarker == isFieldRequired(descField) \/ extracted.required

\* C11: the printed expression of a field of any shape holds ".optional()"
\* exactly when the field carries no required marker; it is then the last
\* piece, after the (item-spliced) type, every method of the chain, the
\* pattern and the defined-only refinement, and it occurs once.
C11_OptionalIffNotRequired ==
    step = "printed" =>
        LET n == Len(expression)
            body == IF RequiredMarker THEN expression ELSE SubSeq(expression, 1, n - 1)
        IN  /\ RequiredMarker <=> ~Includes(expression, ".optional()")
            /\ ~RequiredMarker => expression[n] = ".optional()"
            /\ ~Includes(body, ".optional()")
            /\ body = ItemConstraints(descField,
                                      LazyReference(descField,
                                          mapFieldToZod(descField,
                                              [currentProtoPath |-> CurrentProtoPath]),
                                          recursiveArg),
                                      extracted)
                      \o extracted.methods
                      \o PatternMethods(extracted, RequiredMarker)
                      \o DefinedOnlyMethods(extracted, descField)

\* A map field without a required marker, with a bound on its pairs: the
\* marker follows the bound.
C11_Witness ==
    /\ step = "printed"
    /\ descField.fieldKind = "map"
    /\ ~RequiredMarker
    /\ Len(extracted.methods) = 1
    /\ Len(expression) = 3
    /\ expression[1] = "z.record(z.string(), z.string())"
    /\ expression[3] = ".optional()"

\* The payload holds repeated rules whose items hold rules.
HasItemRules ==
    /\ HasRules
    /\ Payload.type.case = "repeated"
    /\ IsDefined(Rules.items.value)

\* The field as it is without the item rules of its repeated rules.
WithoutItemRules ==
    [descField EXCEPT !.options =
        OptionsWith(Constraints(Payload.required, "repeated",
                                Some([Rules EXCEPT !.items = NoItems])))]

\* C12: the item rules of repeated rules (string, enum, 32-bit and 64-bit
\* items) change the item slots of the chain only: methods, stringPattern,
\* enumDefinedOnly and required are what they are without the item rules.
\* In the printed expression the item suffixes are in the element of the
\* array, and what follows the array is what follows it without the item
\* rules; for "each item > 0" alone on a repeated int32 field the line is
\* z.array(z.number().int().gt(0)) and the marker.
C12_ItemRulesChangeItemSlotsOnly ==
    (ChainReturned /\ HasItemRules) =>
        LET without == getValidationChain(WithoutItemRules)
            plain == generateFieldSchema(WithoutItemRules,
                                         [currentProtoPath |-> CurrentProtoPath],
                                         recursiveArg).zodExpression
        IN  /\ extracted.methods = without.methods
            /\ extracted.stringPattern = without.stringPattern
            /\ extracted.enumDefinedOnly = without.enumDefinedOnly
            /\ extracted.required = without.required
            /\ step = "printed" =>
                   /\ MatchesArray(SubSeq(expression, 1, 3))
                   /\ SubSeq(expression, 4, Len(expression)) = SubSeq(plain, 4, Len(plain))
                   /\ (/\ descField.name = ScoresField.name
                       /\ extracted.methods = <<>>
                       /\ extracted.itemMethods = <<".gt(0)">>
                       /\ ~RequiredMarker)
                      => printed = <<"  scores: z.array(z.number().int().gt(0)).optional(),">>

C12_Witness ==
    /\ step = "printed"
    /\ HasItemRules
    /\ descField.name = ScoresField.name
    /\ extracted.methods = <<>>
    /\ extracted.itemMethods = <<".gt(0)">>
    /\ printed = <<"  scores: z.array(z.number().int().gt(0)).optional(),">>

\* An enum field whose enum rules have definedOnly set.
DefinedOnlyEnumField ==
    /\ descField.fieldKind = "enum"
    /\ HasRules
    /\ Payload.type.case = "enum"
    /\ Rules.definedOnly

ZeroRejected == ".refine((v) => v !== 0, \"Value is required\")"

\* C13 as stated: the printed expression of an enum field with definedOnly
\* set ends in the refinement that rejects 0, nothing after it.
C13_EndsInDefinedOnlyRefinement ==
    (step = "printed" /\ DefinedOnlyEnumField) =>
        expression[Len(expression)] = ZeroRejected

\* C13 as amended: the refinement that rejects 0 is the last piece of the
\* expression of a required field, and of a field without a required marker
\* the last but one, followed by ".optional()" only; it occurs once.
C13_DefinedOnlyRefinementBeforeMarker ==
    (step = "printed" /\ DefinedOnlyEnumField) =>
        LET n == Len(expression)
        IN  /\ Count(expression, ZeroRejected) = 1
            /\ IF Payload.required
               THEN expression[n] = ZeroRejected
               ELSE /\ expression[n] = ".optional()"
                    /\ expression[n - 1] = ZeroRejected

C13_Witness ==
    /\ step = "printed"
    /\ DefinedOnlyEnumField
    /\ ~Payload.required
    /\ printed = <<"  status: z.enum(Status).refine((v) => v !== 0, \"Value is required\").optional(),">>

\* The suffixes of the numeric processors by the constraint they render,
\* over the values a rule of the model can hold.
RuleNumbers == -5..100
RuleLists == {<<1, 2, 3>>, <<1, 2>>, <<-1>>, <<0>>, <<0, 3>>}

BigIntCheck(op, v) ==
    ".refine((s) => BigInt(s) " \o op \o " " \o IntToString(v)
    \o "n, { message: \"Must be " \o op \o " " \o IntToString(v) \o "\" })"

LowerBoundSuffixes ==
    {".gt(" \o IntToString(v) \o ")" : v \in RuleNumbers}
    \cup {".gte(" \o IntToString(v) \o ")" : v \in RuleNumbers}
    \cup {BigIntCheck(">", v) : v \in RuleNumbers}
    \cup {BigIntCheck(">=", v) : v \in RuleNumbers}

UpperBoundSuffixes ==
    {".lt(" \o IntToString(v) \o ")" : v \in RuleNumbers}
    \cup {".lte(" \o IntToString(v) \o ")" : v \in RuleNumbers}
    \cup {BigIntCheck("<", v) : v \in RuleNumbers}
    \cup {BigIntCheck("<=", v) : v \in RuleNumbers}

EqualitySuffixes ==
    {".refine((n) => n === " \o IntToString(v) \o ", { message: \"Must equal "
     \o IntToString(v) \o "\" })" : v \in RuleNumbers}
    \cup {".refine((s) => BigInt(s) === " \o IntToString(v) \o "n, { message: \"Must equal "
          \o IntToString(v) \o "\" })" : v \in RuleNumbers}

InclusionSuffixes ==
    {".refine((n) => [" \o JoinWith(IntStrings(l), ", ")
     \o "].includes(n), { message: \"Must be one of: "
     \o JoinWith(IntStrings(l), ", ") \o "\" })" : l \in RuleLists}
    \cup {".refine((s) => [" \o JoinWith(BigIntLiterals(l), ", ")
          \o "].includes(BigInt(s)), { message: \"Must be one of: "
          \o JoinWith(IntStrings(l), ", ") \o "\" })" : l \in RuleLists}

ExclusionSuffixes ==
    {".refine((n) => ![" \o JoinWith(IntStrings(l), ", ")
     \o "].includes(n), { message: \"Must not be one of: "
     \o JoinWith(IntStrings(l), ", ") \o "\" })" : l \in RuleLists}
    \cup {".refine((s) => ![" \o JoinWith(BigIntLiterals(l), ", ")
          \o "].includes(BigInt(s)), { message: \"Must not be one of: "
          \o JoinWith(IntStrings(l), ", ") \o "\" })" : l \in RuleLists}

\* The place of a numeric suffix in the fixed order; 6 is the finite check
\* of the float family and 0 a suffix of no numeric constraint.
NumericRank(suffix) ==
    CASE suffix \in LowerBoundSuffixes -> 1
      [] suffix \in UpperBoundSuffixes -> 2
      [] suffix \in EqualitySuffixes -> 3
      [] suffix \in InclusionSuffixes -> 4
      [] suffix \in ExclusionSuffixes -> 5
      [] suffix = ".finite()" -> 6
      [] OTHER -> 0

\* The suffixes of the string processor: the length bounds, the substring
\* checks and the well-known formats.
LengthSuffixes ==
    {".min(" \o NatToString(v) \o ")" : v \in 0..10}
    \cup {".max(" \o NatToString(v) \o ")" : v \in 0..10}
    \cup {".length(" \o NatToString(v) \o ")" : v \in 0..10}

SubstringSuffixes ==
    {".startsWith(\"id_\")", ".endsWith(\"_v1\")", ".includes(\"-\")"}

FormatSuffixes ==
    {".email()", ".regex(/^[a-zA-Z0-9][a-zA-Z0-9-]*$/)", ".ip()",
     ".ip({ version: \"v4\" })", ".ip({ version: \"v6\" })", ".url()", ".uuid()"}

StringRank(suffix) ==
    CASE suffix \in LengthSuffixes -> 1
      [] suffix \in SubstringSuffixes -> 2
      [] suffix \in FormatSuffixes -> 3
      [] OTHER -> 0

NumericCases == {"int32", "uint32", "int64", "double"}

\* C22: the suffix list of a chain keeps a fixed order.  Under numeric rules
\* every suffix renders a lower bound, an upper bound, the equality, the
\* inclusion list or the exclusion list (a float, its finite check), and
\* these follow each other in that order with at most one of each; under
\* string rules the length bounds come first, then the prefix, suffix and
\* contains checks, and at most one well-known format comes last.
C22_SuffixOrderFixed ==
    (ChainReturned /\ HasRules) =>
        LET methods == extracted.methods
        IN  /\ Payload.type.case \in NumericCases =>
                /\ \A i \in 1..Len(methods) : NumericRank(methods[i]) > 0
                /\ \A i, j \in 1..Len(methods) :
                       i < j => NumericRank(methods[i]) < NumericRank(methods[j])
            /\ Payload.type.case = "string" =>
                /\ \A i \in 1..Len(methods) : StringRank(methods[i]) > 0
                /\ \A i, j \in 1..Len(methods) :
                       i < j => StringRank(methods[i]) <= StringRank(methods[j])
                /\ CountIn(methods, FormatSuffixes) <= 1

\* A 32-bit field whose rules hold a lower bound, an upper bound, a constant,
\* an inclusion list and an exclusion list: the chain has the five suffixes.
C22_Witness ==
    /\ ChainReturned
    /\ HasRules
    /\ Payload.type.case = "int32"
    /\ Len(extracted.methods) = 5
    /\ extracted.methods[1] = ".gte(1)"
    /\ extracted.methods[2] = ".lt(100)"
    /\ extracted.methods[5] \in ExclusionSuffixes

\* The suffix of a bound of a numeric family: a method of the number schema,
\* and for a 64-bit kind a comparison of the parsed string.
BoundSuffix(family, bound) ==
    IF family = "int64"
    THEN BigIntCheck(CASE bound.case = "gt" -> ">" [] bound.case = "gte" -> ">="
                       [] bound.case = "lt" -> "<" [] OTHER -> "<=",
                     bound.value)
    ELSE "." \o bound.case \o "(" \o IntToString(bound.value) \o ")"

ZeroBound(bound) == bound.case # "none" /\ bound.value = 0

\* C23 as stated: under numeric rules a lower or upper bound of value zero
\* leaves no gt/gte/lt/lte suffix in the chain.
C23_ZeroBoundSuppressed ==
    (ChainReturned /\ HasRules /\ Payload.type.case \in NumericCases) =>
        /\ ZeroBound(Rules.greaterThan) =>
               CountIn(extracted.methods, LowerBoundSuffixes) = 0
        /\ ZeroBound(Rules.lessThan) =>
               CountIn(extracted.methods, UpperBoundSuffixes) = 0

\* C23, amended: under numeric rules a lower or upper bound of value zero is
\* set like any other bound, and the chain holds its suffix with the value 0
\* once; a zero min, max or exact length of string rules and a zero
\* constant of integer rules leave no suffix.
C23_ZeroBoundEmitted ==
    (ChainReturned /\ HasRules) =>
        LET methods == extracted.methods
            family == Payload.type.case
        IN  /\ family \in NumericCases =>
                /\ ZeroBound(Rules.greaterThan) =>
                       /\ CountIn(methods, LowerBoundSuffixes) = 1
                       /\ Includes(methods, BoundSuffix(family, Rules.greaterThan))
                /\ ZeroBound(Rules.lessThan) =>
                       /\ CountIn(methods, UpperBoundSuffixes) = 1
                       /\ Includes(methods, BoundSuffix(family, Rules.lessThan))
            /\ family \in {"int32", "uint32", "int64"} =>
                (Rules.const = Some(0) => CountIn(methods, EqualitySuffixes) = 0)
            /\ family = "string" =>
                /\ Rules.minLen = Some(0) =>
                       CountIn(methods, {".min(" \o NatToString(v) \o ")" : v \in 0..10}) = 0
                /\ Rules.maxLen = Some(0) => CountIn(methods, MaxSuffixes) = 0
                /\ Rules.len = Some(0) =>
                       CountIn(methods, {".length(" \o NatToString(v) \o ")" : v \in 0..10}) = 0

\* A 64-bit field bounded by > 0 and <= 0: both comparisons with zero are in
\* the chain.
C23_Witness ==
    /\ ChainReturned
    /\ HasRules
    /\ Payload.type.case = "int64"
    /\ ZeroBound(Rules.greaterThan)
    /\ ZeroBound(Rules.lessThan)
    /\ extracted.methods[1]
         = ".refine((s) => BigInt(s) > 0n, { message: \"Must be > 0\" })"
    /\ extracted.methods[2]
         = ".refine((s) => BigInt(s) <= 0n, { message: \"Must be <= 0\" })"

BoolEqualitySuffix(b) ==
    ".refine((b) => b === " \o (IF b THEN "true" ELSE "false")
    \o ", { message: \"Must be " \o (IF b THEN "true" ELSE "false") \o "\" })"

\* C27: a constant of bool rules is set whenever it is present, false
\* included: the chain is the one equality refinement on its value; a
\* constant of integer rules that is zero leaves no equality suffix, and one
\* that is not zero leaves one.
C27_FalseConstEmittedZeroConstNot ==
    (ChainReturned /\ HasRules) =>
        /\ Payload.type.case = "bool" =>
               extracted.methods =
                   IF IsDefined(Rules.const)
                   THEN <<BoolEqualitySuffix(ValueOf(Rules.const))>> ELSE <<>>
        /\ Payload.type.case \in {"int32", "uint32", "int64"} =>
               CountIn(extracted.methods, EqualitySuffixes)
                   = IF IsDefined(Rules.const) /\ ValueOf(Rules.const) # 0 THEN 1 ELSE 0

\* A bool field whose constant is false: the chain compares with false.
C27_Witness ==
    /\ ChainReturned
    /\ HasRules
    /\ Payload.type.case = "bool"
    /\ Rules.const = Some(FALSE)
    /\ extracted.methods
         = <<".refine((b) => b === false, { message: \"Must be false\" })">>

(***************************************************************************)
(* Part III.  mapScalarToZod (src/unnamed/part_000) called several times,  *)
(* and getRelativeImportPath (src/tools/zod/src/utils.ts) on paths that    *)
(* are sequences of characters.       (specifications ScalarSpec, PathSpec) *)
(***************************************************************************)
\* The largest number of mapScalarToZod calls of a run.
MaxScalarCalls == 2

\* The members of ScalarType, and a classifier that is none of them.
ScalarKinds ==
    {"DOUBLE", "FLOAT", "INT64", "UINT64", "INT32", "FIXED64", "FIXED32", "BOOL",
     "STRING", "BYTES", "UINT32", "SFIXED32", "SFIXED64", "SINT32", "SINT64", "GROUP"}

ScalarInit ==
    /\ MapperIdle
    /\ ResolverIdle
    /\ ExtractorIdle
    /\ GeneratorIdle

\* A call of mapScalarToZod(scalar).
MapScalarToZodCall ==
    /\ Len(scalarCalls) < MaxScalarCalls
    /\ \E scalar \in ScalarKinds :
         scalarCalls' = Append(scalarCalls,
                               [scalar |-> scalar, zodType |-> mapScalarToZod(scalar)])
    /\ UNCHANGED <<pathArgs, pathStep, importPath, resolverVars, extractorVars, generatorVars>>

ScalarNext == MapScalarToZodCall

ScalarSpec == ScalarInit /\ [][ScalarNext]_vars

\* C15: the expression of a scalar classifier is the same in every call,
\* whatever was mapped before; int64, sint64, sfixed64, uint64 and fixed64
\* give "z.string()", the expression of string; uint32 and fixed32 give
\* "z.number().int().nonnegative()"; int32, sint32 and sfixed32 give
\* "z.number().int()".
C15_ScalarMappingFixed ==
    \A i \in 1..Len(scalarCalls) :
        /\ \A j \in 1..Len(scalarCalls) :
               scalarCalls[i].scalar = scalarCalls[j].scalar
                   => scalarCalls[i].zodType = scalarCalls[j].zodType
        /\ scalarCalls[i].scalar \in {"INT64", "SINT64", "SFIXED64", "UINT64", "FIXED64", "STRING"}
               => scalarCalls[i].zodType = "z.string()"
        /\ scalarCalls[i].scalar \in {"UINT32", "FIXED32"}
               => scalarCalls[i].zodType = "z.number().int().nonnegative()"
        /\ scalarCalls[i].scalar \in {"INT32", "SINT32", "SFIXED32"}
               => scalarCalls[i].zodType = "z.number().int()"

\* uint64 mapped after string, with the same expression.
C15_Witness ==
    /\ Len(scalarCalls) = 2
    /\ scalarCalls[1].scalar = "STRING"
    /\ scalarCalls[2].scalar = "UINT64"
    /\ scalarCalls[2].zodType = "z.string()"
    /\ scalarCalls[1].zodType = "z.string()"

\* The longest path, in characters, given to getRelativeImportPath.
MaxPathLen == 5

\* str.split(separator) on a sequence of characters, for a separator of one
\* character: the pieces between the separators, empty pieces included.
RECURSIVE split(_, _)
split(str, separator) ==
    IF \A i \in 1..Len(str) : str[i] # separator
    THEN <<str>>
    ELSE LET first == CHOOSE i \in 1..Len(str) :
                          /\ str[i] = separator
                          /\ \A j \in 1..(i - 1) : str[j] # separator
         IN  <<SubSeq(str, 1, first - 1)>>
                 \o split(SubSeq(str, first + 1, Len(str)), separator)

\* parts.join(separator)
RECURSIVE join(_, _)
join(parts, separator) ==
    IF parts = <<>> THEN <<>>
    ELSE IF Len(parts) = 1 THEN parts[1]
    ELSE parts[1] \o <<separator>> \o join(Tail(parts), separator)

\* Boolean(part) of a string: the empty string is falsy.
Truthy(part) == Len(part) > 0

\* Mutant of CommonLengthFrom: the loop does not break at the first
\* difference.
RECURSIVE CommonLengthNoBreak(_, _, _)
CommonLengthNoBreak(fromParts, toParts, i) ==
    IF i > Len(fromParts) \/ i > Len(toParts) THEN 0
    ELSE (IF fromParts[i] = toParts[i] THEN 1 ELSE 0)
             + CommonLengthNoBreak(fromParts, toParts, i + 1)

\* The loop that counts the common prefix, from index i on.
RECURSIVE CommonLengthFrom(_, _, _)
CommonLengthFrom(fromParts, toParts, i) ==
    IF i > Len(fromParts) \/ i > Len(toParts) THEN 0
    ELSE IF fromParts[i] = toParts[i]
         THEN 1 + CommonLengthFrom(fromParts, toParts, i + 1)
         ELSE 0

DotJs == <<".", "j", "s">>
ZodDotJs == <<"_", "z", "o", "d", ".", "j", "s">>

getRelativeImportPath(fromProtoPath, toProtoPath, suffix) ==
    LET fromSplit == split(fromProtoPath, "/")
        toSplit == split(toProtoPath, "/")
        fromDir == join(SubSeq(fromSplit, 1, Len(fromSplit) - 1), "/")
        toDir == join(SubSeq(toSplit, 1, Len(toSplit) - 1), "/")
        toBaseName == toSplit[Len(toSplit)]
        fromParts == SelectSeq(split(fromDir, "/"), Truthy)
        toParts == SelectSeq(split(toDir, "/"), Truthy)
        commonLength == CommonLengthFrom(fromParts, toParts, 1)
        upCount == Len(fromParts) - commonLength
        downPath == SubSeq(toParts, commonLength + 1, Len(toParts))
        relativeParts == [i \in 1..upCount |-> <<".", ".">>]
                             \o downPath \o <<toBaseName \o suffix>>
        joined == join(relativeParts, "/")
    IN  IF fromDir = toDir
        THEN <<".", "/">> \o toBaseName \o suffix
        ELSE IF joined # <<>> THEN joined
        ELSE <<".", "/">> \o toBaseName \o suffix

\* The names of proto files: relative paths with no empty segment.
PathChars == {"a", "b", "/"}

CharStrings(n) == UNION {[1..k -> PathChars] : k \in 1..n}

ProtoPaths ==
    {p \in CharStrings(MaxPathLen) :
        /\ p[1] # "/"
        /\ p[Len(p)] # "/"
        /\ \A i \in 1..(Len(p) - 1) : ~(p[i] = "/" /\ p[i + 1] = "/")}

PathInit ==
    /\ \E from \in ProtoPaths, to \in ProtoPaths, suffix \in {DotJs, ZodDotJs} :
           pathArgs = [fromProtoPath |-> from, toProtoPath |-> to, suffix |-> suffix]
    /\ pathStep = "ready"
    /\ importPath = <<>>
    /\ scalarCalls = <<>>
    /\ ResolverIdle
    /\ ExtractorIdle
    /\ GeneratorIdle

\* A call of getRelativeImportPath.
GetRelativeImportPathCall ==
    /\ pathStep = "ready"
    /\ importPath' = getRelativeImportPath(pathArgs.fromProtoPath, pathArgs.toProtoPath,
                                           pathArgs.suffix)
    /\ pathStep' = "returned"
    /\ UNCHANGED <<pathArgs, scalarCalls, resolverVars, extractorVars, generatorVars>>

PathNext == GetRelativeImportPathCall

PathSpec == PathInit /\ [][PathNext]_vars

\* The segments of a path, read off the places of its separators.
SlashPlaces(path) == {i \in 1..Len(path) : path[i] = "/"}

SegmentsOf(path) ==
    LET cuts == SlashPlaces(path) \cup {0, Len(path) + 1}
        starts == cuts \ {Len(path) + 1}
        EndOf(c) == CHOOSE d \in cuts : d > c /\ \A e \in cuts : e > c => d <= e
        StartAt(k) == CHOOSE c \in starts : Cardinality({d \in starts : d < c}) = k - 1
    IN  [k \in 1..Cardinality(starts) |->
            SubSeq(path, StartAt(k) + 1, EndOf(StartAt(k)) - 1)]

DirectoryOf(path) == SubSeq(SegmentsOf(path), 1, Len(SegmentsOf(path)) - 1)

BaseNameOf(path) == SegmentsOf(path)[Len(SegmentsOf(path))]

\* The length of the longest common prefix of two directories.
CommonPrefix(d, e) ==
    CHOOSE n \in 0..Len(d) :
        /\ n <= Len(e)
        /\ SubSeq(d, 1, n) = SubSeq(e, 1, n)
        /\ \A k \in (n + 1)..Len(d) : k <= Len(e) => SubSeq(d, 1, k) # SubSeq(e, 1, k)

\* Where a relative path leads from a directory: ".." leaves the innermost
\* directory, "." stays; <<"outside">> when ".." leaves the root.
RECURSIVE ResolveFrom(_, _)
ResolveFrom(directory, relative) ==
    IF relative = <<>> THEN directory
    ELSE IF relative[1] = <<".">> THEN ResolveFrom(directory, Tail(relative))
    ELSE IF relative[1] = <<".", ".">>
         THEN IF directory = <<>> THEN <<<<"outside">>>>
              ELSE ResolveFrom(SubSeq(directory, 1, Len(directory) - 1), Tail(relative))
    ELSE ResolveFrom(Append(directory, relative[1]), Tail(relative))

\* The path of the claim: the ".." segments, the rest of the target
\* directory, the base name with the suffix.
ExpectedImportPath(from, to, suffix) ==
    LET common == CommonPrefix(DirectoryOf(from), DirectoryOf(to))
        ups == [i \in 1..(Len(DirectoryOf(from)) - common) |-> <<".", ".">>]
        rest == SubSeq(DirectoryOf(to), common + 1, Len(DirectoryOf(to)))
    IN  ups \o rest \o <<BaseNameOf(to) \o suffix>>

\* C20: for the names of two proto files, getRelativeImportPath returns
\* "./" + base name + suffix when they are in the same directory, and
\* otherwise one ".." for every source directory below the common prefix,
\* then the target directories below the common prefix, then base name +
\* suffix; resolved against the directory of the source the result is the
\* target directory + base name + suffix.
C20_ImportPathLeadsToTarget ==
    pathStep = "returned" =>
        LET from == pathArgs.fromProtoPath
            to == pathArgs.toProtoPath
            target == Append(DirectoryOf(to), BaseNameOf(to) \o pathArgs.suffix)
        IN  /\ DirectoryOf(from) = DirectoryOf(to)
                => importPath = <<".", "/">> \o BaseNameOf(to) \o pathArgs.suffix
            /\ DirectoryOf(from) # DirectoryOf(to)
                => SegmentsOf(importPath) = ExpectedImportPath(from, to, pathArgs.suffix)
            /\ ResolveFrom(DirectoryOf(from), SegmentsOf(importPath)) = target

\* From a/a/b to a/b/a: one directory up, then into b.
C20_Witness ==
    /\ pathStep = "returned"
    /\ pathArgs.fromProtoPath = <<"a", "/", "a", "/", "b">>
    /\ pathArgs.toProtoPath = <<"a", "/", "b", "/", "a">>
    /\ pathArgs.suffix = ZodDotJs
    /\ importPath = <<".", ".", "/", "b", "/", "a">> \o ZodDotJs

\* C21: every path that getRelativeImportPath returns begins with "./" or
\* "../": its first segment is "." or ".." and another segment follows.
C21_ImportPathIsRelativeSpecifier ==
    pathStep = "returned" =>
        /\ Len(SegmentsOf(importPath)) > 1
        /\ SegmentsOf(importPath)[1] \in {<<".">>, <<".", ".">>}

(***************************************************************************)
(* Part IV.  A run of the plugin: parseOptions (src/index.ts), then        *)
(* generateZodSchemas over the files of the schema, generateFileSchemas    *)
(* for each, with the call of analyzeMessageDependencies of Part I in it.  *)
(* File names are sequences of characters here, since startsWith and       *)
(* getRelativeImportPath read them.               (specification GenSpec)  *)
(***************************************************************************)
\* The largest number of files of a schema.
MaxFiles == 2

\* str.startsWith(prefix) on sequences of characters.
StartsWith(str, prefix) ==
    /\ Len(str) >= Len(prefix)
    /\ SubSeq(str, 1, Len(prefix)) = prefix

\* str.endsWith(suffix) on strings.
EndsWith(str, suffix) ==
    /\ Len(str) >= Len(suffix)
    /\ SubSeq(str, Len(str) - Len(suffix) + 1, Len(str)) = suffix

\* Mutant of parseOptions: the value of the pair is not looked at.
parseOptionsOfAnyValue(raw) ==
    [includeResponses |->
        \E i \in 1..Len(raw) : raw[i].key = "include_responses"]

\* parseOptions(rawOptions): includeResponses starts false and is set by
\* every pair with key "include_responses" and value "true".
parseOptions(raw) ==
    [includeResponses |->
        \E i \in 1..Len(raw) :
            raw[i].key = "include_responses" /\ raw[i].value = "true"]

\* Lines 28-30: the test that skips a file.
IsThirdParty(file) ==
    \/ StartsWith(file.name, <<"b", "u", "f", "/">>)
    \/ StartsWith(file.name, <<"g", "o", "o", "g", "l", "e", "/">>)

\* Lines 43-49: file.messages without the Response messages, unless the
\* option is set.
FilterMessages(file, schemaOptions) ==
    LET Kept(msg) == ~(~schemaOptions.includeResponses /\ EndsWith(msg.name, "Response"))
    IN  SelectSeq(file.messages, Kept)

\* The typeName values that mapMessageToZod maps to an expression of their
\* own, with no import.
WellKnownTypeNames ==
    {"google.protobuf.Timestamp", "google.protobuf.Duration", "google.protobuf.Any",
     "google.protobuf.Struct", "google.protobuf.Value", "google.protobuf.ListValue",
     "google.protobuf.Empty", "google.protobuf.StringValue", "google.protobuf.Int32Value",
     "google.protobuf.Int64Value", "google.protobuf.UInt32Value",
     "google.protobuf.UInt64Value", "google.protobuf.FloatValue",
     "google.protobuf.DoubleValue", "google.protobuf.BoolValue",
     "google.protobuf.BytesValue"}

\* needsImport of the ZodTypeInfo that mapMessageToZod returns.
MessageImport(msgDesc, context) ==
    IF msgDesc.typeName \in WellKnownTypeNames THEN None
    ELSE IF msgDesc.file = context.currentProtoPath THEN None
    ELSE Some([name |-> toSchemaName(msgDesc.name),
               from |-> getRelativeImportPath(context.currentProtoPath, msgDesc.file,
                                              ZodDotJs)])

\* needsImport of the ZodTypeInfo that mapEnumToZod returns.
EnumImport(enumDesc, context) ==
    Some([name |-> enumDesc.name,
          from |-> getRelativeImportPath(context.currentProtoPath, enumDesc.file, DotJs)])

\* needsImport of the ZodTypeInfo that mapFieldToZod returns.
needsImport(field, context) ==
    LET elementKind ==
            CASE field.fieldKind = "map" -> field.mapKind
              [] field.fieldKind = "list" -> field.listKind
              [] OTHER -> field.fieldKind
    IN  CASE elementKind = "enum" -> EnumImport(field.enum, context)
          [] elementKind = "message" -> MessageImport(field.message, context)
          [] OTHER -> None

\* Mutant of AddImport: every name opens an entry of its own.
AddImportOfNewEntry(imports, from, name) ==
    Append(imports, [from |-> from, names |-> <<name>>])

\* The imports Map<string, Set<string>>, in insertion order: a sequence of
\* [from, names].  Lines 126-128: a name added under a path.
AddImport(imports, from, name) ==
    IF \E i \in 1..Len(imports) : imports[i].from = from
    THEN LET i == CHOOSE k \in 1..Len(imports) : imports[k].from = from
         IN  [imports EXCEPT ![i].names = SetAdd(@, name)]
    ELSE Append(imports, [from |-> from, names |-> <<name>>])

\* Lines 123-130: the loop over the fields of a message.
RECURSIVE CollectFieldImports(_, _, _)
CollectFieldImports(fields, context, imports) ==
    IF fields = <<>> THEN imports
    ELSE LET needed == needsImport(Head(fields), context)
         IN  CollectFieldImports(
                 Tail(fields), context,
                 IF IsDefined(needed)
                 THEN AddImport(imports, ValueOf(needed).from, ValueOf(needed).name)
                 ELSE imports)

RECURSIVE collectMessageImports(_, _, _)
RECURSIVE CollectImportsOfAll(_, _, _)

\* Lines 76-78 and 133-135: collectMessageImports called on each message
\* of a list.
CollectImportsOfAll(msgs, context, imports) ==
    IF msgs = <<>> THEN imports
    ELSE CollectImportsOfAll(Tail(msgs), context,
                             collectMessageImports(Head(msgs), context, imports))

collectMessageImports(message, context, imports) ==
    CollectImportsOfAll(message.nestedMessages, context,
                        CollectFieldImports(message.fields, context, imports))

\* Lines 82-87: the local enums are added under "./<base name>.js".
RECURSIVE AddLocalEnums(_, _, _)
AddLocalEnums(enums, pbImportPath, imports) ==
    IF enums = <<>> THEN imports
    ELSE AddLocalEnums(Tail(enums), pbImportPath,
                       AddImport(imports, pbImportPath, Join(Head(enums).name)))

\* The characters of code units 32 to 126, in the order of their code
\* units, without the grave accent (96), which no name can hold.
CodeUnits ==
    " !\"#$%&'()*+,-./0123456789:;<=>?@ABCDEFGHIJKLMNOPQRSTUVWXYZ[\\]^_abcdefghijklmnopqrstuvwxyz{|}~"

\* Array.from(names).sort(): without a compare function the strings are
\* ordered by their UTF-16 code units, a proper prefix before the longer
\* string.
SortNames(names) ==
    LET CodeUnitOf(c) == CHOOSE k \in 1..Len(CodeUnits) : SubSeq(CodeUnits, k, k) = c
        RECURSIVE Precedes(_, _)
        Precedes(a, b) ==
            IF Len(b) = 0 THEN FALSE
            ELSE IF Len(a) = 0 THEN TRUE
            ELSE IF Head(a) # Head(b)
                 THEN CodeUnitOf(SubSeq(a, 1, 1)) < CodeUnitOf(SubSeq(b, 1, 1))
                 ELSE Precedes(Tail(a), Tail(b))
        RECURSIVE Insert(_, _)
        Insert(sorted, n) ==
            IF sorted = <<>> THEN <<n>>
            ELSE IF Precedes(n, Head(sorted)) THEN <<n>> \o sorted
            ELSE <<Head(sorted)>> \o Insert(Tail(sorted), n)
        RECURSIVE Sorted(_)
        Sorted(rest) ==
            IF rest = <<>> THEN <<>>
            ELSE Insert(Sorted(SubSeq(rest, 1, Len(rest) - 1)), rest[Len(rest)])
    IN  Sorted(names)

\* Lines 93-96: one import statement for each path of the Map.
ImportLines(imports) ==
    [i \in 1..Len(imports) |->
        "import { " \o JoinWith(SortNames(imports[i].names), ", ")
            \o " } from \"" \o Join(imports[i].from) \o "\";"]

\* toScreamingSnakeCase(name) on the characters of name:
\* replace(/([a-z])([A-Z])/g, "$1_$2") puts an underscore between a lower-case
\* letter and the upper-case letter after it, replace(/([A-Z])([A-Z][a-z])/g,
\* "$1_$2") one between an upper-case letter and an upper-case letter that a
\* lower-case letter follows, and toUpperCase() raises the letters.
toScreamingSnakeCase(name) ==
    LET RECURSIVE SplitLowerUpper(_)
        SplitLowerUpper(chars) ==
            IF Len(chars) < 2 THEN chars
            ELSE IF /\ Includes(LowerCaseLetters, chars[1])
                    /\ Includes(UpperCaseLetters, chars[2])
                 THEN <<chars[1], "_", chars[2]>>
                          \o SplitLowerUpper(SubSeq(chars, 3, Len(chars)))
                 ELSE <<chars[1]>> \o SplitLowerUpper(Tail(chars))
        RECURSIVE SplitUpperWord(_)
        SplitUpperWord(chars) ==
            IF Len(chars) < 3 THEN chars
            ELSE IF /\ Includes(UpperCaseLetters, chars[1])
                    /\ Includes(UpperCaseLetters, chars[2])
                    /\ Includes(LowerCaseLetters, chars[3])
                 THEN <<chars[1], "_", chars[2], chars[3]>>
                          \o SplitUpperWord(SubSeq(chars, 4, Len(chars)))
                 ELSE <<chars[1]>> \o SplitUpperWord(Tail(chars))
        split2 == SplitUpperWord(SplitLowerUpper(name))
    IN  [i \in 1..Len(split2) |->
            IF Includes(LowerCaseLetters, split2[i]) THEN ToUpperCase(split2[i])
            ELSE split2[i]]

stripEnumPrefix(valueName, enumName) ==
    LET prefix == toScreamingSnakeCase(enumName) \o <<"_">>
    IN  IF StartsWith(valueName, prefix)
        THEN SubSeq(valueName, Len(prefix) + 1, Len(valueName))
        ELSE valueName

\* The lines generateEnumSchema prints; the string-to-enum map leaves out
\* the value numbered 0.
generateEnumSchema(enumDesc) ==
    LET enumName == Join(enumDesc.name)
        schemaName == toSchemaName(enumName)
        screaming == Join(toScreamingSnakeCase(enumDesc.name))
        NumberMapLines ==
            [i \in 1..Len(enumDesc.values) |->
                "  " \o IntToString(enumDesc.values[i].number) \o ": \""
                    \o Join(stripEnumPrefix(enumDesc.values[i].name, enumDesc.name))
                    \o "\","]
        RECURSIVE StringMapLines(_)
        StringMapLines(values) ==
            IF values = <<>> THEN <<>>
            ELSE (IF Head(values).number = 0 THEN <<>>
                  ELSE <<"  " \o Join(stripEnumPrefix(Head(values).name, enumDesc.name))
                             \o ": " \o enumName \o "." \o Join(Head(values).name) \o ",">>)
                 \o StringMapLines(Tail(values))
    IN  <<"/**", " * Zod schema for " \o enumName \o " enum">>
        \o (IF enumDesc.deprecated THEN <<" * @deprecated">> ELSE <<>>)
        \o <<" * @generated from enum " \o enumDesc.typeName,
             " */",
             "export const " \o schemaName \o " = z.enum(" \o enumName \o ");",
             "export type " \o enumName \o "Type = z.infer<typeof " \o schemaName \o ">;",
             "",
             "/**",
             " * Map of " \o enumName \o " enum values to string representations",
             " * @generated from enum " \o enumDesc.typeName,
             " */",
             "export const " \o screaming \o "_MAP: Record<number, string> = {">>
        \o NumberMapLines
        \o <<"};",
             "",
             "/**",
             " * Map of string representations to " \o enumName \o " enum values",
             " * @generated from enum " \o enumDesc.typeName,
             " */",
             "export const STRING_TO_" \o screaming \o ": Record<string, " \o enumName
                 \o "> = {">>
        \o StringMapLines(enumDesc.values)
        \o <<"};", "">>

\* Lines 101-103: generateEnumSchema for each local enum.
RECURSIVE EnumSchemaLines(_)
EnumSchemaLines(enums) ==
    IF enums = <<>> THEN <<>>
    ELSE generateEnumSchema(Head(enums)) \o EnumSchemaLines(Tail(enums))

\* inferTsType(field); the scalar kinds 9, 8 and 12 of the switch are
\* ScalarType.STRING, BOOL and BYTES.
inferTsType(field) ==
    LET wrapArray(inner) == IF field.fieldKind = "list" THEN inner \o "[]" ELSE inner
    IN  CASE \/ field.fieldKind = "scalar"
             \/ field.fieldKind = "list" /\ field.listKind = "scalar" ->
                 (CASE field.scalar = "STRING" -> wrapArray("string")
                    [] field.scalar = "BOOL" -> wrapArray("boolean")
                    [] field.scalar = "BYTES" -> wrapArray("Uint8Array")
                    [] OTHER -> wrapArray("number"))
          [] \/ field.fieldKind = "enum"
             \/ field.fieldKind = "list" /\ field.listKind = "enum" ->
                 wrapArray(field.enum.name)
          [] \/ field.fieldKind = "message"
             \/ field.fieldKind = "list" /\ field.listKind = "message" ->
                 IF field.message.typeName = "google.protobuf.Timestamp"
                 THEN wrapArray("string")
                 ELSE wrapArray(field.message.name)
          [] field.fieldKind = "map" -> "Record<string, unknown>"
          [] OTHER -> "unknown"

\* Lines 216-226: the lines of the type declaration of a recursive message.
TypeLines(message) ==
    [i \in 1..Len(message.fields) |->
        LET field == message.fields[i]
            fieldIsOptional == isFieldOptional(field)
            fieldIsRequired == isFieldRequired(field) \/ getValidationChain(field).required
        IN  "  " \o toCamelCase(field.name)
                \o (IF fieldIsOptional /\ ~fieldIsRequired THEN "?" ELSE "")
                \o ": " \o inferTsType(field) \o ";"]

\* Mutant of IsRecursive: only a message with a field of its own type is
\* bound lazily.
IsRecursiveBySelfReference(message, recursiveNames) ==
    \E i \in 1..Len(message.fields) :
        /\ message.fields[i].fieldKind \in {"message", "list"}
        /\ message.fields[i].msgName = message.name

\* Line 202: recursiveTypes.has(message.name)
IsRecursive(message, recursiveNames) == message.name \in recursiveNames

\* Mutant of generateMessageSchema: the type of a recursive message is
\* declared after its schema binding.
generateMessageSchemaTypeLast(message, context, recursiveNames) ==
    LET schemaName == toSchemaName(message.name)
        RECURSIVE FieldLinesOf(_)
        FieldLinesOf(fields) ==
            IF fields = <<>> THEN <<>>
            ELSE generateFieldSchema(Head(fields), context, recursiveNames).lines
                     \o FieldLinesOf(Tail(fields))
    IN  <<"/**", " * Zod schema for " \o message.name>>
        \o (IF message.deprecated THEN <<" * @deprecated">> ELSE <<>>)
        \o <<" * @generated from message " \o message.typeName, " */">>
        \o (IF IsRecursive(message, recursiveNames)
            THEN <<"export const " \o schemaName \o ": z.ZodType<" \o message.name
                       \o "> = z.lazy(() => z.object({">>
                 \o FieldLinesOf(message.fields)
                 \o <<"}));",
                      "",
                      "export type " \o message.name \o " = {">>
                 \o TypeLines(message)
                 \o <<"};">>
            ELSE <<"export const " \o schemaName \o " = z.object({">>
                 \o FieldLinesOf(message.fields)
                 \o <<"});",
                      "",
                      "export type " \o message.name \o " = z.infer<typeof " \o schemaName
                          \o ">;">>)

\* The lines generateMessageSchema prints.
generateMessageSchema(message, context, recursiveNames) ==
    LET schemaName == toSchemaName(message.name)
        RECURSIVE FieldLinesOf(_)
        FieldLinesOf(fields) ==
            IF fields = <<>> THEN <<>>
            ELSE generateFieldSchema(Head(fields), context, recursiveNames).lines
                     \o FieldLinesOf(Tail(fields))
    IN  <<"/**", " * Zod schema for " \o message.name>>
        \o (IF message.deprecated THEN <<" * @deprecated">> ELSE <<>>)
        \o <<" * @generated from message " \o message.typeName, " */">>
        \o (IF IsRecursive(message, recursiveNames)
            THEN <<"export type " \o message.name \o " = {">>
                 \o TypeLines(message)
                 \o <<"};",
                      "",
                      "export const " \o schemaName \o ": z.ZodType<" \o message.name
                          \o "> = z.lazy(() => z.object({">>
                 \o FieldLinesOf(message.fields)
                 \o <<"}));">>
            ELSE <<"export const " \o schemaName \o " = z.object({">>
                 \o FieldLinesOf(message.fields)
                 \o <<"});",
                      "",
                      "export type " \o message.name \o " = z.infer<typeof " \o schemaName
                          \o ">;">>)

\* The console.error calls of one generateMessageSchema call: those of the
\* getValidationChain call of line 219 for each field of a recursive message,
\* then those of the generateFieldSchema call for each field.
generateMessageSchemaWarnings(message, recursiveNames) ==
    LET RECURSIVE WarningsOf(_)
        WarningsOf(fields) ==
            IF fields = <<>> THEN <<>>
            ELSE ValidationWarnings(Head(fields)) \o WarningsOf(Tail(fields))
    IN  (IF IsRecursive(message, recursiveNames) THEN WarningsOf(message.fields) ELSE <<>>)
        \o WarningsOf(message.fields)

\* Lines 109-112: the block of each message of sortedMessages, each
\* followed by an empty line.
RECURSIVE MessageSchemaLines(_, _, _)
MessageSchemaLines(msgs, context, recursiveNames) ==
    IF msgs = <<>> THEN <<>>
    ELSE generateMessageSchema(Head(msgs), context, recursiveNames) \o <<"">>
             \o MessageSchemaLines(Tail(msgs), context, recursiveNames)

\* Lines 64-103: what generateFileSchemas prints before the messages: the
\* header, the imports and the enum schemas.
UnitHead(file, msgs) ==
    LET context == [currentProtoPath |-> file.name]
        pbImportPath == getRelativeImportPath(file.name, file.name, DotJs)
        imports == AddLocalEnums(file.enums, pbImportPath,
                                 CollectImportsOfAll(msgs, context, <<>>))
    IN  <<"// @generated from file " \o Join(file.name) \o ".proto",
          "/* eslint-disable */",
          "",
          "import { z } from \"zod\";">>
        \o ImportLines(imports)
        \o <<"">>
        \o EnumSchemaLines(file.enums)

(***************************************************************************)
(* The input of a run: the raw options and the files of the schema.  A     *)
(* field carries field.message.name and field.message.file.name also as    *)
(* msgName and msgFile, the names Part I reads them by.                    *)
(***************************************************************************)
ApiPath == <<"p", "k", "g", "/", "v", "1", "/", "a", "p", "i">>
BufferPath == <<"b", "u", "f", "f", "e", "r", "/", "a", "p", "i">>
CommonPath == <<"p", "k", "g", "/", "c", "o", "m", "m", "o", "n">>
ValidatePath == <<"b", "u", "f", "/", "v", "a", "l", "i", "d", "a", "t", "e", "/", "v", "a", "l", "i", "d", "a", "t", "e">>
TimestampPath == <<"g", "o", "o", "g", "l", "e", "/", "p", "r", "o", "t", "o", "b", "u", "f", "/", "t", "i", "m", "e", "s", "t", "a", "m", "p">>

FileNames == {ApiPath, BufferPath, ValidatePath, TimestampPath}

AbsentMessage == [name |-> "", typeName |-> "", file |-> <<>>]
AbsentEnum == [name |-> "", file |-> <<>>]

MessageOf(name, path) == [name |-> name, typeName |-> "pkg.v1." \o name, file |-> path]
TimestampOf == [name |-> "Timestamp", typeName |-> "google.protobuf.Timestamp",
                file |-> TimestampPath]
KindEnum == [name |-> "Kind", file |-> CommonPath]

GenField(name, fieldKind, elementKind, scalar, message, enum) ==
    [name |-> name, fieldKind |-> fieldKind,
     listKind |-> IF fieldKind = "list" THEN elementKind ELSE "",
     mapKind |-> IF fieldKind = "map" THEN elementKind ELSE "",
     mapKey |-> IF fieldKind = "map" THEN "STRING" ELSE "",
     scalar |-> scalar, message |-> message, enum |-> enum,
     proto3Optional |-> FALSE, deprecated |-> FALSE, options |-> NoOptions,
     msgName |-> message.name, msgFile |-> message.file]

ScalarOf(name, scalar) == GenField(name, "scalar", "", scalar, AbsentMessage, AbsentEnum)
SingularOf(name, message) == GenField(name, "message", "", "", message, AbsentEnum)
RepeatedOf(name, message) == GenField(name, "list", "message", "", message, AbsentEnum)
MapOf(name, message) == GenField(name, "map", "message", "", message, AbsentEnum)
EnumOf(name, enum) == GenField(name, "enum", "", "", AbsentMessage, enum)

GenMessage(name, typeName, fields, nested) ==
    [name |-> name, typeName |-> typeName, deprecated |-> FALSE, fields |-> fields,
     nestedMessages |-> nested]

\* The messages of the input files, for a file named path.
ItemMessage(path) ==
    GenMessage("Item", "pkg.v1.Item",
               <<ScalarOf(<<"l", "a", "b", "e", "l">>, "STRING"), EnumOf(<<"k", "i", "n", "d">>, KindEnum)>>, <<>>)
PageMessage(path) ==
    GenMessage("Page", "pkg.v1.Page",
               <<RepeatedOf(<<"i", "t", "e", "m", "s">>, MessageOf("Item", path)),
                 SingularOf(<<"n", "e", "x", "t", "_", "p", "a", "g", "e">>, MessageOf("Page", path)),
                 ScalarOf(<<"t", "o", "t", "a", "l">>, "INT64")>>, <<>>)
PageResponseMessage(path) ==
    GenMessage("PageResponse", "pkg.v1.PageResponse",
               <<SingularOf(<<"p", "a", "g", "e">>, MessageOf("Page", path)),
                 SingularOf(<<"c", "r", "e", "a", "t", "e", "d", "_", "a", "t">>, TimestampOf)>>, <<>>)
NodeMessage4(path) ==
    GenMessage("Node", "pkg.v1.Node",
               <<[RepeatedOf(<<"e", "d", "g", "e", "s">>, MessageOf("Edge", path))
                      EXCEPT !.options = UndecodableOptions]>>, <<>>)
EdgeMessage(path) ==
    GenMessage("Edge", "pkg.v1.Edge",
               <<SingularOf(<<"t", "o">>, MessageOf("Node", path)),
                 SingularOf(<<"o", "w", "n", "e", "r">>, MessageOf("Owner", CommonPath))>>, <<>>)
GraphMessage(path) ==
    GenMessage("Graph", "pkg.v1.Graph",
               <<SingularOf(<<"r", "o", "o", "t">>, MessageOf("Node", path)),
                 MapOf(<<"b", "y", "_", "i", "d">>, MessageOf("Node", path))>>, <<>>)
IndexMessage(path) ==
    GenMessage("Index", "pkg.v1.Index",
               <<MapOf(<<"e", "n", "t", "r", "i", "e", "s">>, MessageOf("Entry", path)),
                 SingularOf(<<"o", "w", "n", "e", "r">>, MessageOf("Owner", CommonPath))>>, <<>>)
EntryMessage(path) ==
    GenMessage("Entry", "pkg.v1.Entry",
               <<ScalarOf(<<"k", "e", "y">>, "STRING"),
                 MapOf(<<"t", "a", "g", "s">>, MessageOf("Tag", CommonPath)),
                 RepeatedOf(<<"o", "w", "n", "e", "r", "s">>, MessageOf("Owner", CommonPath))>>, <<>>)
RegistryMessage(path) ==
    [GenMessage("Registry", "pkg.v1.Registry",
                <<MapOf(<<"c", "h", "i", "l", "d", "r", "e", "n">>, MessageOf("Registry", path))>>, <<>>)
        EXCEPT !.deprecated = TRUE]
InnerMessage(path) ==
    GenMessage("Inner", "pkg.v1.Holder.Inner",
               <<ScalarOf(<<"s", "i", "z", "e">>, "UINT32"),
                 SingularOf(<<"o", "w", "n", "e", "r">>, MessageOf("Owner", CommonPath))>>, <<>>)
HolderMessage(path) ==
    GenMessage("Holder", "pkg.v1.Holder",
               <<SingularOf(<<"i", "n", "n", "e", "r">>,
                            [name |-> "Inner", typeName |-> "pkg.v1.Holder.Inner",
                             file |-> path])>>,
               <<InnerMessage(path)>>)
CallMessage(path) ==
    GenMessage("Call", "pkg.v1.Call",
               <<SingularOf(<<"r", "e", "p", "l", "y">>, MessageOf("CallResponse", path)),
                 RepeatedOf(<<"h", "o", "l", "d", "e", "r", "s">>, MessageOf("Holder", path))>>, <<>>)
CallResponseMessage(path) ==
    GenMessage("CallResponse", "pkg.v1.CallResponse", <<ScalarOf(<<"c", "o", "d", "e">>, "INT32")>>, <<>>)
ResponseLogMessage(path) ==
    GenMessage("ResponseLog", "pkg.v1.ResponseLog",
               <<[ScalarOf(<<"l", "i", "n", "e">>, "STRING")
                      EXCEPT !.options = UndecodableOptions]>>, <<>>)

\* Sets of three messages that refer to each other only.
MessagePools(path) ==
    {<<ItemMessage(path), PageMessage(path), PageResponseMessage(path)>>,
     <<NodeMessage4(path), EdgeMessage(path), GraphMessage(path)>>,
     <<IndexMessage(path), EntryMessage(path), RegistryMessage(path)>>,
     <<HolderMessage(path), CallMessage(path), CallResponseMessage(path)>>}

\* The declaration orders of three messages.
Orders == {order \in [1..3 -> 1..3] : \A i, j \in 1..3 : order[i] = order[j] => i = j}

\* file.messages: a pool in any declaration order, one message, or none.
MessageLists(path) ==
    {[i \in 1..3 |-> pool[order[i]]] : pool \in MessagePools(path), order \in Orders}
        \cup {<<>>, <<CallResponseMessage(path)>>, <<ResponseLogMessage(path)>>}

StatusDesc ==
    [name |-> <<"S", "t", "a", "t", "u", "s">>, typeName |-> "pkg.v1.Status", deprecated |-> FALSE,
     values |-> <<[name |-> <<"S", "T", "A", "T", "U", "S", "_", "U", "N", "S", "P", "E", "C", "I", "F", "I", "E", "D">>, number |-> 0],
                  [name |-> <<"S", "T", "A", "T", "U", "S", "_", "A", "C", "T", "I", "V", "E">>, number |-> 1]>>]
CostTypeDesc ==
    [name |-> <<"C", "o", "s", "t", "T", "y", "p", "e">>, typeName |-> "pkg.v1.CostType", deprecated |-> TRUE,
     values |-> <<[name |-> <<"C", "O", "S", "T", "_", "T", "Y", "P", "E", "_", "U", "N", "S", "P", "E", "C", "I", "F", "I", "E", "D">>, number |-> 0],
                  [name |-> <<"C", "O", "S", "T", "_", "T", "Y", "P", "E", "_", "T", "O", "K", "E", "N", "_", "I", "N", "P", "U", "T">>, number |-> 1],
                  [name |-> <<"O", "T", "H", "E", "R">>, number |-> 2]>>]

EnumLists == {<<>>, <<StatusDesc>>, <<StatusDesc, CostTypeDesc>>}

GenFiles ==
    UNION {{[name |-> path, messages |-> msgs, enums |-> enums] :
               msgs \in MessageLists(path), enums \in EnumLists} : path \in FileNames}

RawOption(key, value) == [key |-> key, value |-> value]

RawOptionLists ==
    {<<>>,
     <<RawOption("include_responses", "true")>>,
     <<RawOption("include_responses", "false")>>,
     <<RawOption("include_responses", "TRUE")>>,
     <<RawOption("include_response", "true")>>,
     <<RawOption("target", "ts"), RawOption("include_responses", "true")>>,
     <<RawOption("include_responses", "true"), RawOption("include_responses", "false")>>}

GenInit ==
    /\ \E raw \in RawOptionLists : rawOptions = raw
    /\ \E n \in 0..MaxFiles : filesLeft = n
    /\ pluginOptions = <<>>
    /\ descFile = <<>>
    /\ genStep = "parse"
    /\ opened = FALSE
    /\ outputFileName = <<>>
    /\ unitLines = <<>>
    /\ schemas = <<>>
    /\ ResolverIdle
    /\ ExtractorIdle
    /\ MapperIdle

\* The plugin parses its options before generateTs is called.
ParseOptions ==
    /\ genStep = "parse"
    /\ pluginOptions' = parseOptions(rawOptions)
    /\ genStep' = "loop"
    /\ UNCHANGED <<rawOptions, filesLeft, descFile, opened, outputFileName, unitLines,
                   schemas, resolverVars, extractorVars, mapperVars>>

\* Lines 26-31: the next file of the loop is a third-party file.
SkipThirdParty ==
    /\ genStep = "loop"
    /\ filesLeft > 0
    /\ \E nextFile \in GenFiles :
         /\ IsThirdParty(nextFile)
         /\ descFile' = nextFile
    /\ genStep' = "fileDone"
    /\ UNCHANGED <<rawOptions, pluginOptions, filesLeft, opened, outputFileName, unitLines,
                   schemas, resolverVars, extractorVars, mapperVars>>

\* Lines 42-56: generateFileSchemas returns before it opens a file.
SkipEmptyFile ==
    /\ genStep = "loop"
    /\ filesLeft > 0
    /\ \E nextFile \in GenFiles :
         /\ ~IsThirdParty(nextFile)
         /\ Len(FilterMessages(nextFile, pluginOptions)) = 0
         /\ Len(nextFile.enums) = 0
         /\ descFile' = nextFile
    /\ genStep' = "fileDone"
    /\ UNCHANGED <<rawOptions, pluginOptions, filesLeft, opened, outputFileName, unitLines,
                   schemas, resolverVars, extractorVars, mapperVars>>

\* Lines 42-107: generateFileSchemas up to the call of
\* analyzeMessageDependencies(messages, file.name).
OpenUnit ==
    /\ genStep = "loop"
    /\ filesLeft > 0
    /\ \E nextFile \in GenFiles :
         /\ ~IsThirdParty(nextFile)
         /\ ~(Len(FilterMessages(nextFile, pluginOptions)) = 0 /\ Len(nextFile.enums) = 0)
         /\ descFile' = nextFile
         /\ opened' = TRUE
         /\ outputFileName' = nextFile.name \o <<"_", "z", "o", "d", ".", "t", "s">>
         /\ unitLines' = UnitHead(nextFile, FilterMessages(nextFile, pluginOptions))
         /\ messages' = FilterMessages(nextFile, pluginOptions)
         /\ protoPath' = nextFile.name
    /\ pc' = "start"
    /\ genStep' = "analysis"
    /\ UNCHANGED <<rawOptions, pluginOptions, filesLeft, schemas, dependencies,
                   recursiveTypes, cycleIndex, stack, visiting, inDegree, queue, visited,
                   result, extractorVars, mapperVars>>

\* Lines 109-112: the analysis has returned and every message of
\* sortedMessages is printed.
EmitMessages ==
    /\ genStep = "analysis"
    /\ pc = "done"
    /\ LET context == [currentProtoPath |-> descFile.name]
       IN  /\ unitLines' = unitLines
                  \o MessageSchemaLines(sortedMessages, context, recursiveTypes)
           /\ schemas' =
                  [i \in 1..Len(sortedMessages) |->
                      [name |-> sortedMessages[i].name,
                       lines |-> generateMessageSchema(sortedMessages[i], context,
                                                       recursiveTypes),
                       expressions |->
                           [j \in 1..Len(sortedMessages[i].fields) |->
                               generateFieldSchema(sortedMessages[i].fields[j], context,
                                                   recursiveTypes).zodExpression]]]
    /\ warnings' =
           LET RECURSIVE WarningsOfAll(_)
               WarningsOfAll(msgs) ==
                   IF msgs = <<>> THEN <<>>
                   ELSE generateMessageSchemaWarnings(Head(msgs), recursiveTypes)
                            \o WarningsOfAll(Tail(msgs))
           IN  warnings \o WarningsOfAll(sortedMessages)
    /\ genStep' = "fileDone"
    /\ UNCHANGED <<rawOptions, pluginOptions, filesLeft, descFile, opened, outputFileName,
                   resolverVars, mapperVars, descField, recursiveArg, step, extracted,
                   expression, printed>>

\* The loop of generateZodSchemas goes on to the next file; the generated
\* file of this one is not written to again.
NextIteration ==
    /\ genStep = "fileDone"
    /\ filesLeft' = filesLeft - 1
    /\ genStep' = "loop"
    /\ descFile' = <<>>
    /\ opened' = FALSE
    /\ outputFileName' = <<>>
    /\ unitLines' = <<>>
    /\ schemas' = <<>>
    /\ messages' = <<>>
    /\ protoPath' = ""
    /\ pc' = "idle"
    /\ dependencies' = <<>>
    /\ recursiveTypes' = {}
    /\ cycleIndex' = 0
    /\ stack' = <<>>
    /\ visiting' = {}
    /\ inDegree' = <<>>
    /\ queue' = <<>>
    /\ visited' = {}
    /\ result' = <<>>
    /\ UNCHANGED <<rawOptions, pluginOptions, extractorVars, mapperVars>>

GenNext ==
    \/ ParseOptions
    \/ SkipThirdParty
    \/ SkipEmptyFile
    \/ OpenUnit
    \/ BuildGraph
    \/ CycleCall
    \/ HasCycleRecurse
    \/ HasCycleFound
    \/ HasCycleReturn
    \/ CyclesDone
    \/ Seed
    \/ QueueSkip
    \/ QueueVisit
    \/ QueueEmpty
    \/ AppendRemaining
    \/ EmitMessages
    \/ NextIteration

GenSpec == GenInit /\ [][GenNext]_vars

(***************************************************************************)
(* The notions the statements about a run of the plugin are written in.    *)
(***************************************************************************)
\* Some pair of the raw options is include_responses = "true".
OptionIsExactlyTrue ==
    \E i \in 1..Len(rawOptions) :
        rawOptions[i] = [key |-> "include_responses", value |-> "true"]

\* The name of the file starts with the directory buf or google.
InThirdPartyNamespace ==
    /\ Len(SegmentsOf(descFile.name)) > 1
    /\ SegmentsOf(descFile.name)[1] \in {<<"b", "u", "f">>, <<"g", "o", "o", "g", "l", "e">>}

\* The message names of the input files that end in "Response".
ResponseNames == {"PageResponse", "CallResponse"}

\* The names of the messages of the file that the Response filter leaves.
NamesLeft ==
    {descFile.messages[i].name : i \in
        {k \in 1..Len(descFile.messages) :
            OptionIsExactlyTrue \/ descFile.messages[k].name \notin ResponseNames}}

\* The names of the message schemas of the unit.
EmittedNames == {schemas[i].name : i \in 1..Len(schemas)}

\* The unit of the current file is complete.
UnitDone == genStep = "fileDone" /\ opened

\* C14: a file gets an output unit exactly if its name does not start with
\* "buf/" or "google/" and it has an enum or a message left by the Response
\* filter; the filter removes the messages named ...Response unless some
\* option is include_responses = "true"; the unit holds the schemas of the
\* messages left, and for a file without a unit generateFile is not called
\* and nothing is printed.
C14_UnitOpenedIffSomethingToEmit ==
    /\ genStep # "parse" => (pluginOptions.includeResponses <=> OptionIsExactlyTrue)
    /\ genStep \in {"analysis", "fileDone"} =>
           /\ opened <=> /\ ~InThirdPartyNamespace
                         /\ Len(descFile.enums) >= 1 \/ NamesLeft # {}
           /\ ~opened => outputFileName = <<>> /\ unitLines = <<>>
    /\ UnitDone => /\ EmittedNames = NamesLeft
                   /\ Len(schemas) = Cardinality(NamesLeft)

\* A file whose only message is CallResponse, without enums, under the
\* option include_responses = "TRUE": no unit.
C14_Witness ==
    /\ genStep = "fileDone"
    /\ ~opened
    /\ descFile.name = ApiPath
    /\ NamesOf(descFile.messages) = <<"CallResponse">>
    /\ descFile.enums = <<>>
    /\ rawOptions = <<RawOption("include_responses", "TRUE")>>

\* The place of a line in the block of schema i, 0 if it is not there.
LinePlace(i, line) ==
    IF \E k \in 1..Len(schemas[i].lines) : schemas[i].lines[k] = line
    THEN CHOOSE k \in 1..Len(schemas[i].lines) : schemas[i].lines[k] = line
    ELSE 0

\* Schema i is bound lazily, after the declaration of its type; it is bound
\* directly.
LazilyBound(i) ==
    LET name == schemas[i].name
        binding == LinePlace(i, "export const " \o name \o "Schema: z.ZodType<" \o name
                                    \o "> = z.lazy(() => z.object({")
        declaration == LinePlace(i, "export type " \o name \o " = {")
    IN  0 < declaration /\ declaration < binding

DirectlyBound(i) ==
    LinePlace(i, "export const " \o schemas[i].name \o "Schema = z.object({") > 0

\* Field j of the message of schema i, and the message it refers to, if its
\* type, its element type or its value type is a message with a schema of
\* its own.
FieldOf(i, j) == sortedMessages[i].fields[j]

RefersToSchema(i, j) ==
    /\ \/ FieldOf(i, j).fieldKind = "message"
       \/ FieldOf(i, j).fieldKind = "list" /\ FieldOf(i, j).listKind = "message"
       \/ FieldOf(i, j).fieldKind = "map" /\ FieldOf(i, j).mapKind = "message"
    /\ FieldOf(i, j).message.typeName \notin WellKnownTypeNames

TargetOf(i, j) == FieldOf(i, j).message.name

\* The expression of field j of schema i holds a lazy reference to the
\* schema of its target; it holds the schema name itself.
LazilyReferenced(i, j) ==
    Includes(schemas[i].expressions[j], "z.lazy(() => " \o TargetOf(i, j) \o "Schema)")

EagerlyReferenced(i, j) ==
    \/ Includes(schemas[i].expressions[j], TargetOf(i, j) \o "Schema")
    \/ Includes(schemas[i].expressions[j],
                "z.record(z.string(), " \o TargetOf(i, j) \o "Schema)")

\* C17: in a complete unit a message schema is bound lazily, after the
\* declaration of its type, exactly if the message is in recursiveTypes, and
\* directly otherwise; the expression of a singular or repeated message
\* field is a lazy reference exactly if the name of its target is in
\* recursiveTypes, and the schema name itself otherwise; recursiveTypes is
\* the set of the messages from which a cycle of references is reached,
\* whatever the order in which the messages are declared.
C17_LazyIffRecursive ==
    UnitDone =>
        /\ recursiveTypes = {m \in MsgNameSet : ReachesCycle(m)}
        /\ \A i \in 1..Len(schemas) :
               /\ LazilyBound(i) <=> schemas[i].name \in recursiveTypes
               /\ DirectlyBound(i) <=> schemas[i].name \notin recursiveTypes
               /\ \A j \in 1..Len(schemas[i].expressions) :
                      (RefersToSchema(i, j) /\ FieldOf(i, j).fieldKind # "map") =>
                          /\ LazilyReferenced(i, j) <=> TargetOf(i, j) \in recursiveTypes
                          /\ EagerlyReferenced(i, j) <=> TargetOf(i, j) \notin recursiveTypes

\* Page is declared before Item: the schema of Item is bound directly and
\* that of Page lazily, its repeated field refers to ItemSchema and its
\* singular field lazily to PageSchema.
C17_Witness ==
    /\ UnitDone
    /\ NamesOf(descFile.messages) = <<"PageResponse", "Page", "Item">>
    /\ \E i, k \in 1..Len(schemas) :
           /\ schemas[i].name = "Page"
           /\ schemas[k].name = "Item"
           /\ LazilyBound(i)
           /\ DirectlyBound(k)
           /\ schemas[i].expressions[1] = <<"z.array(", "ItemSchema", ")", ".optional()">>
           /\ schemas[i].expressions[2] = <<"z.lazy(() => PageSchema)", ".optional()">>

\* The field refers, without an import, to a schema of the current file.
SameFileReference(i, j) ==
    /\ RefersToSchema(i, j)
    /\ FieldOf(i, j).message.file = descFile.name
    /\ LazilyReferenced(i, j) \/ EagerlyReferenced(i, j)

\* C18: in a complete unit, when a directly bound message schema refers
\* eagerly to a schema of the unit, also as the value type of a map field,
\* that schema is defined earlier in the unit.
C18_EagerReferenceDefinedEarlier ==
    UnitDone =>
        \A i \in 1..Len(schemas) :
            DirectlyBound(i) =>
                \A j \in 1..Len(schemas[i].expressions) :
                    (/\ SameFileReference(i, j)
                     /\ EagerlyReferenced(i, j)
                     /\ TargetOf(i, j) \in EmittedNames) =>
                        \E k \in 1..(i - 1) : schemas[k].name = TargetOf(i, j)

\* C19: in a complete unit, every schema of the current file that a message
\* schema refers to is a schema of the unit.
C19_SameFileReferenceEmitted ==
    UnitDone =>
        \A i \in 1..Len(schemas) :
            \A j \in 1..Len(schemas[i].expressions) :
                SameFileReference(i, j) => TargetOf(i, j) \in EmittedNames

SixtyFourBitKinds == {"INT64", "UINT64", "SINT64", "FIXED64", "SFIXED64"}

\* C24: a field of a 64-bit integer kind is a string wherever it is
\* rendered: its schema expression starts from z.string(), and in the type
\* declaration of a recursive message its type is string, as in the schema.
C24_SixtyFourBitFieldIsString ==
    UnitDone =>
        \A i \in 1..Len(schemas) :
            \A j \in 1..Len(schemas[i].expressions) :
                (/\ FieldOf(i, j).fieldKind = "scalar"
                 /\ FieldOf(i, j).scalar \in SixtyFourBitKinds) =>
                    /\ schemas[i].expressions[j][1] = "z.string()"
                    /\ LazilyBound(i) =>
                           \E mark \in {"", "?"} :
                               LinePlace(i, "  " \o toCamelCase(FieldOf(i, j).name) \o mark
                                            \o ": string;") > 0

\* The fields of msgs and of the messages nested in them.
RECURSIVE FieldsOfAll(_)
FieldsOfAll(msgs) ==
    IF msgs = <<>> THEN {}
    ELSE Range(Head(msgs).fields) \cup FieldsOfAll(Head(msgs).nestedMessages)
             \cup FieldsOfAll(Tail(msgs))

\* The import obligation of a field of the current file, by its target: the
\* type of the field, of its elements or of its values.
Obligation(f) ==
    LET target == CASE f.fieldKind = "map" -> f.mapKind
                    [] f.fieldKind = "list" -> f.listKind
                    [] OTHER -> f.fieldKind
    IN  CASE target = "enum" ->
                 {[name |-> f.enum.name,
                   from |-> getRelativeImportPath(descFile.name, f.enum.file, DotJs)]}
          [] /\ target = "message"
             /\ f.message.typeName \notin WellKnownTypeNames
             /\ f.message.file # descFile.name ->
                 {[name |-> f.message.name \o "Schema",
                   from |-> getRelativeImportPath(descFile.name, f.message.file, ZodDotJs)]}
          [] OTHER -> {}

\* The obligations of the unit: those of the fields of its messages, and the
\* enums of the file itself.
UnitObligations ==
    UNION {Obligation(f) : f \in FieldsOfAll(messages)}
    \cup {[name |-> Join(descFile.enums[i].name),
           from |-> getRelativeImportPath(descFile.name, descFile.name, DotJs)] :
             i \in 1..Len(descFile.enums)}

\* The names the input files can owe, in the order of their code units.
SortedImportNames == <<"CostType", "Kind", "OwnerSchema", "Status", "TagSchema">>

\* The one import statement of a path: the names owed from it, each once, in
\* sorted order.
ImportStatement(from) ==
    LET Owed(n) == [name |-> n, from |-> from] \in UnitObligations
    IN  "import { " \o JoinWith(SelectSeq(SortedImportNames, Owed), ", ")
            \o " } from \"" \o Join(from) \o "\";"

ImportStatements == {ImportStatement(o.from) : o \in UnitObligations}

\* C25: the import statements of a unit are those its fields and enums owe.
\* A field whose target is a message of the file itself or a well-known type
\* owes nothing, one whose target is a message of another file owes the
\* schema name from that file's generated schema, one whose target is an
\* enum owes the enum name from its file, and a list or a map owes what its
\* element or value type owes.  The unit holds one statement for each path,
\* right after the import of zod, with the names owed from the path, each
\* once and sorted.
C25_ImportsFollowObligations ==
    UnitDone =>
        LET n == Cardinality({o.from : o \in UnitObligations})
        IN  /\ unitLines[4] = "import { z } from \"zod\";"
            /\ {unitLines[4 + k] : k \in 1..n} = ImportStatements
            /\ unitLines[5 + n] = ""
            /\ \A statement \in ImportStatements : Count(unitLines, statement) = 1

\* A file with two enums and the messages Index, Entry and Registry: Entry
\* refers to Tag and Owner of another file in a map and in a list, Index to
\* Owner again, and the unit imports OwnerSchema once, before TagSchema, and
\* the two enums in sorted order.
C25_Witness ==
    /\ UnitDone
    /\ descFile.name = ApiPath
    /\ Len(descFile.enums) = 2
    /\ \E i \in 1..Len(messages) : messages[i].name = "Entry"
    /\ unitLines[5] = "import { OwnerSchema, TagSchema } from \"../common_zod.js\";"
    /\ unitLines[6] = "import { CostType, Status } from \"./api.js\";"
    /\ unitLines[7] = ""

\* The last line of the block of schema i, the export of the inferred type
\* of its message, and the places of its two kinds of binding.
LastLine(i) == schemas[i].lines[Len(schemas[i].lines)]

InferredTypeExport(i) ==
    "export type " \o schemas[i].name \o " = z.infer<typeof " \o schemas[i].name
        \o "Schema>;"

DirectBindingPlace(i) ==
    LinePlace(i, "export const " \o schemas[i].name \o "Schema = z.object({")

LazyBindingPlace(i) ==
    LinePlace(i, "export const " \o schemas[i].name \o "Schema: z.ZodType<"
                     \o schemas[i].name \o "> = z.lazy(() => z.object({")

TypeDeclarationPlace(i) == LinePlace(i, "export type " \o schemas[i].name \o " = {")

\* C26 as stated: the block of every message, recursive or not, ends in the
\* export of the message's type, which comes after the schema binding.
C26_BlockEndsInTypeExport ==
    UnitDone =>
        \A i \in 1..Len(schemas) :
            \/ /\ LastLine(i) = InferredTypeExport(i)
               /\ 0 < DirectBindingPlace(i) + LazyBindingPlace(i)
            \/ /\ LastLine(i) = "};"
               /\ 0 < LazyBindingPlace(i)
               /\ LazyBindingPlace(i) < TypeDeclarationPlace(i)

\* C26, amended: the block of every message exports the message's type once.
\* The block of a message that is not recursive ends in the export of the
\* inferred type, after the schema binding; the block of a recursive message
\* declares the type first and ends in the schema binding.
C26_TypeExportLastUnlessRecursive ==
    UnitDone =>
        \A i \in 1..Len(schemas) :
            IF schemas[i].name \in recursiveTypes
            THEN /\ 0 < TypeDeclarationPlace(i)
                 /\ TypeDeclarationPlace(i) < LazyBindingPlace(i)
                 /\ LastLine(i) = "}));"
                 /\ Count(schemas[i].lines, InferredTypeExport(i)) = 0
                 /\ Count(schemas[i].lines, "export type " \o schemas[i].name \o " = {") = 1
            ELSE /\ 0 < DirectBindingPlace(i)
                 /\ LastLine(i) = InferredTypeExport(i)
                 /\ Count(schemas[i].lines, InferredTypeExport(i)) = 1
                 /\ TypeDeclarationPlace(i) = 0

\* The unit of Item and the recursive Page: the block of Item ends in the
\* export of the inferred type, the block of Page in its lazy binding.
C26_Witness ==
    /\ UnitDone
    /\ \E i, k \in 1..Len(schemas) :
           /\ schemas[i].name = "Page"
           /\ schemas[k].name = "Item"
           /\ schemas[i].lines[5] = "export type Page = {"
           /\ LastLine(i) = "}));"
           /\ LastLine(k) = "export type Item = z.infer<typeof ItemSchema>;"

=============================================================================
